---- MODULE Spec2Model ----
(***************************************************************************)
(* Ambulance routing backend: the graph view and its traffic overlay, the  *)
(* two Dijkstra routines of the path engine, ambulance selection and       *)
(* assignment, the tracking websocket with its start guard, and the        *)
(* movement simulator with its terminal commit.                            *)
(*                                                                         *)
(* Travel times are floats in the source; they are modelled as naturals    *)
(* (no claim depends on rounding).  Timestamps are whole hours.            *)
(***************************************************************************)
EXTENDS Integers, Sequences, FiniteSets, TLC

VARIABLES
    edges,      \* store: the edges table, a sequence of rows; a row's id is its index
    roadblocks, \* store: the roadblocks table, rows [edge_id, start_time, end_time]
    trafficUpdates, \* store: the traffic_updates table, rows [edge_id, new_weight]
    hospitals,  \* store: the ids of the nodes of type "hospital", in table order
    now,        \* the wall clock (datetime.utcnow()), in hours
    view,       \* GraphManager.adjacency of the view last built for a query
    viewTime,   \* the clock when the traffic overlay was applied to view, or None
    query,      \* path engine: the arguments of the calls, [source, order]
    pathCall,   \* path engine: the last call on view, with its result
    ambulances, \* store: the ambulances table, rows [status, current_node]
    requests,   \* store: the emergency_requests table, rows
                \* [source_node, destination_node, status]
    assignments,    \* store: the assignments table, rows
                    \* [ambulance_id, emergency_request_id, eta, status]
    dispatchCall,   \* dispatch: the last selection or assignment call, with its result
    active_connections, \* ConnectionManager: request id -> list of websockets
    active_simulations, \* ConnectionManager: request ids with a started simulation
    sockets,    \* websocket_endpoint coroutines: [pc, request_id] per subscriber
    tasks       \* simulate_ambulance_movement tasks, in creation order

storeVars == <<edges, roadblocks, trafficUpdates, hospitals>>
pathVars == <<view, viewTime, query, pathCall>>
fleetVars == <<ambulances, requests, assignments>>
simVars == <<active_connections, active_simulations, sockets, tasks>>
vars == <<storeVars, now, pathVars, fleetVars, dispatchCall, simVars>>

(***************************************************************************)
(* Bounds of the model.                                                    *)
(***************************************************************************)
MaxEdges == 3       \* edge rows of the city whose view the path engine gets
MaxTrafficRows == 2 \* roadblock rows plus traffic update rows in the store
MaxTicks == 4       \* hours the clock advances
Weights == {0, 5, 20}   \* the travel times (minutes) an edge row can carry

\* Python's None, for an optional number or node id (all real ones are >= 0).
None == -1

\* Vertices: the city under query owns CityNodes; OtherNode belongs to another
\* city, so it is in no view of this one.
\* The clock starts in the hour before the morning peak (traffic_manager.py:67).
FirstHour == 6

CityNodes == {1, 2, 3}
OtherNode == 4
AllNodes == CityNodes \cup {OtherNode}
City == 1
NodeCity(n) == IF n \in CityNodes THEN City ELSE City + 1
NodesOfCity(city_id) == {n \in AllNodes : NodeCity(n) = city_id}

(***************************************************************************)
(* Python dict and list helpers.                                           *)
(***************************************************************************)
EmptyDict == [k \in {} |-> None]
DictPut(d, k, v) == (k :> v) @@ d
DictGet(d, k) == IF k \in DOMAIN d THEN d[k] ELSE None

RECURSIVE Reverse(_)
Reverse(s) == IF s = <<>> THEN <<>> ELSE Append(Reverse(Tail(s)), Head(s))

\* heapq.heappop on a heap of (distance, node) tuples: the least tuple in
\* Python's lexicographic tuple order.  No tuple is ever pushed twice (a push
\* strictly lowers the node's distance), so the heap is a set.
TupleLE(a, b) == a[1] < b[1] \/ (a[1] = b[1] /\ a[2] <= b[2])
HeapPop(heap) == CHOOSE e \in heap : \A f \in heap : TupleLE(e, f)

(***************************************************************************)
(* GraphManager (graph_manager.py).  A view is the adjacency dict: vertex  *)
(* -> list of <<neighbor, weight, edge id>>.                               *)
(***************************************************************************)
has_node(graph, n) == n \in DOMAIN graph
neighbors(graph, n) == IF n \in DOMAIN graph THEN graph[n] ELSE <<>>

(***************************************************************************)
(* shortest_path_and_distance (shortest_path.py).                          *)
(***************************************************************************)
\* A relaxation that records a predecessor only when it improves a distance
\* that is already known, not when it first reaches a vertex.
SpRelaxNoPrevOnDiscovery(st, d, u, entry) ==
    LET v == entry[1]
        new_d == d + entry[2]
    IN  IF v \notin DOMAIN st.dist
        THEN [st EXCEPT !.dist = DictPut(@, v, new_d),
                        !.heap = @ \cup {<<new_d, v>>}]
        ELSE IF new_d < st.dist[v]
        THEN [st EXCEPT !.dist = DictPut(@, v, new_d),
                        !.prev = DictPut(@, v, u),
                        !.heap = @ \cup {<<new_d, v>>}]
        ELSE st

\* A relaxation that only records the first distance found for a vertex.
SpRelaxFirstOnly(st, d, u, entry) ==
    LET v == entry[1]
        new_d == d + entry[2]
    IN  IF v \notin DOMAIN st.dist
        THEN [st EXCEPT !.dist = DictPut(@, v, new_d),
                        !.prev = DictPut(@, v, u),
                        !.heap = @ \cup {<<new_d, v>>}]
        ELSE st

\* Lines 33-41: one neighbor of the popped vertex u (popped at distance d).
SpRelax(st, d, u, entry) ==
    LET v == entry[1]
        weight == entry[2]
    IN  IF weight = None THEN st
        ELSE LET new_d == d + weight
             IN  IF v \notin DOMAIN st.dist \/ new_d < st.dist[v]
                 THEN [st EXCEPT !.dist = DictPut(@, v, new_d),
                                 !.prev = DictPut(@, v, u),
                                 !.heap = @ \cup {<<new_d, v>>}]
                 ELSE st

RECURSIVE SpRelaxAll(_, _, _, _)
SpRelaxAll(st, d, u, entries) ==
    IF entries = <<>> THEN st
    ELSE SpRelaxAll(SpRelax(st, d, u, Head(entries)), d, u, Tail(entries))

\* Lines 24-41: the while loop, with lazy deletion and the break at target.
RECURSIVE SpLoop(_, _, _)
SpLoop(graph, target, st) ==
    IF st.heap = {} THEN st
    ELSE LET e == HeapPop(st.heap)
             d == e[1]
             u == e[2]
             st1 == [st EXCEPT !.heap = @ \ {e}]
         IN  IF u \in st.visited THEN SpLoop(graph, target, st1)
             ELSE LET st2 == [st1 EXCEPT !.visited = @ \cup {u}]
                  IN  IF u = target THEN st2
                      ELSE SpLoop(graph, target,
                                  SpRelaxAll(st2, d, u, neighbors(graph, u)))

\* A reconstruction that forgets path.reverse().
RECURSIVE SpReconstructNoReverse(_, _, _, _)
SpReconstructNoReverse(prev, source, cur, path) ==
    IF cur = source THEN Append(path, source)
    ELSE LET nxt == DictGet(prev, cur)
         IN  IF nxt = None THEN <<>>
             ELSE SpReconstructNoReverse(prev, source, nxt, Append(path, cur))

\* Lines 47-56: walk the predecessors back from cur; <<>> for a broken chain.
RECURSIVE SpReconstruct(_, _, _, _)
SpReconstruct(prev, source, cur, path) ==
    IF cur = source THEN Reverse(Append(path, source))
    ELSE LET nxt == DictGet(prev, cur)
         IN  IF nxt = None THEN <<>>
             ELSE SpReconstruct(prev, source, nxt, Append(path, cur))

Unreachable == [dist |-> None, path |-> <<>>]

\* Lines 18-41: the maps the loop leaves behind.
SpRun(graph, source, target) ==
    SpLoop(graph, target,
           [dist |-> (source :> 0), prev |-> EmptyDict,
            heap |-> {<<0, source>>}, visited |-> {}])

shortest_path_and_distance(graph, source, target) ==
    IF ~has_node(graph, source) \/ ~has_node(graph, target) THEN Unreachable
    ELSE LET st == SpRun(graph, source, target)
         IN  IF target \notin DOMAIN st.dist THEN Unreachable
             ELSE LET path == SpReconstruct(st.prev, source, target, <<>>)
                  IN  IF path = <<>> THEN Unreachable
                      ELSE [dist |-> st.dist[target], path |-> path]

(***************************************************************************)
(* find_nearest_hospital (hospital_select.py).  `order` is the order in    *)
(* which Python iterates hospital_set; distance_km is not modelled.        *)
(***************************************************************************)
\* A relaxation that never lowers a distance already recorded.
FnhRelaxFirstOnly(st, current_dist, node_id, entry) ==
    LET neighbor_id == entry[1]
        new_dist == current_dist + entry[2]
    IN  IF neighbor_id \notin DOMAIN st.distances
        THEN [st EXCEPT !.distances = DictPut(@, neighbor_id, new_dist),
                        !.previous = DictPut(@, neighbor_id, node_id),
                        !.heap = @ \cup {<<new_dist, neighbor_id>>}]
        ELSE st

\* Lines 137-144: one neighbor of the popped vertex.
FnhRelax(st, current_dist, node_id, entry) ==
    LET neighbor_id == entry[1]
        new_dist == current_dist + entry[2]
    IN  IF neighbor_id \notin DOMAIN st.distances
           \/ new_dist < st.distances[neighbor_id]
        THEN [st EXCEPT !.distances = DictPut(@, neighbor_id, new_dist),
                        !.previous = DictPut(@, neighbor_id, node_id),
                        !.heap = @ \cup {<<new_dist, neighbor_id>>}]
        ELSE st

RECURSIVE FnhRelaxAll(_, _, _, _)
FnhRelaxAll(st, d, u, entries) ==
    IF entries = <<>> THEN st
    ELSE FnhRelaxAll(FnhRelax(st, d, u, Head(entries)), d, u, Tail(entries))

\* Lines 120-144: the while loop; it runs until the heap is empty.
RECURSIVE FnhLoop(_, _)
FnhLoop(graph, st) ==
    IF st.heap = {} THEN st
    ELSE LET e == HeapPop(st.heap)
             st1 == [st EXCEPT !.heap = @ \ {e}]
         IN  IF e[2] \in st.visited THEN FnhLoop(graph, st1)
             ELSE FnhLoop(graph,
                          FnhRelaxAll([st1 EXCEPT !.visited = @ \cup {e[2]}],
                                      e[1], e[2], neighbors(graph, e[2])))

\* A scan that keeps the last reachable hospital instead of the nearest.
FnhScanKeepsLast(distances, order, best) ==
    LET reached == {i \in 1..Len(order) : order[i] \in DOMAIN distances}
    IN  IF reached = {} THEN best
        ELSE LET i == CHOOSE j \in reached : \A k \in reached : k <= j
             IN  [id |-> order[i], d |-> distances[order[i]]]

\* Lines 148-160: the scan over the hospitals, strict < keeps the first minimum.
RECURSIVE FnhScan(_, _, _)
FnhScan(distances, order, best) ==
    IF order = <<>> THEN best
    ELSE LET hospital_id == Head(order)
             d == DictGet(distances, hospital_id)
         IN  IF d = None THEN FnhScan(distances, Tail(order), best)
             ELSE IF best.d = None \/ d < best.d
             THEN FnhScan(distances, Tail(order), [id |-> hospital_id, d |-> d])
             ELSE FnhScan(distances, Tail(order), best)

find_nearest_hospital(graph, source_node_id, order) ==
    IF ~has_node(graph, source_node_id)
    THEN [best_hospital_id |-> None, best_distance |-> None, distances |-> EmptyDict]
    ELSE LET st == FnhLoop(graph,
                           [distances |-> (source_node_id :> 0),
                            previous |-> (source_node_id :> None),
                            heap |-> {<<0, source_node_id>>}, visited |-> {}])
             best == FnhScan(st.distances, order, [id |-> None, d |-> None])
         IN  [best_hospital_id |-> best.id, best_distance |-> best.d,
              distances |-> st.distances]

(***************************************************************************)
(* run_dijkstra_debug_for_request (debug_dijkstra.py), lines 97-155: the   *)
(* full run on the view and the reconstruction of the path.  The recorded  *)
(* steps are snapshots of dist and visited; the last one holds the final   *)
(* distances.                                                              *)
(***************************************************************************)
\* Lines 133-140: one neighbor of the popped vertex u (popped at distance d).
DebugRelax(st, d, u, entry) ==
    LET v == entry[1]
        w == entry[2]
    IN  IF w = None THEN st
        ELSE LET alt == d + w
             IN  IF v \notin DOMAIN st.dist \/ alt < st.dist[v]
                 THEN [st EXCEPT !.dist = DictPut(@, v, alt),
                                 !.prev = DictPut(@, v, u),
                                 !.heap = @ \cup {<<alt, v>>}]
                 ELSE st

RECURSIVE DebugRelaxAll(_, _, _, _)
DebugRelaxAll(st, d, u, entries) ==
    IF entries = <<>> THEN st
    ELSE DebugRelaxAll(DebugRelax(st, d, u, Head(entries)), d, u, Tail(entries))

\* Lines 108-140: the while loop; it does not stop at the target.
RECURSIVE DebugLoop(_, _)
DebugLoop(graph, st) ==
    IF st.heap = {} THEN st
    ELSE LET e == HeapPop(st.heap)
             st1 == [st EXCEPT !.heap = @ \ {e}]
         IN  IF e[2] \in st.visited_set THEN DebugLoop(graph, st1)
             ELSE DebugLoop(graph,
                            DebugRelaxAll(
                                [st1 EXCEPT !.visited_set = @ \cup {e[2]}],
                                e[1], e[2], neighbors(graph, e[2])))

\* Lines 146-155: the walk back from the target; the source is appended and
\* the list reversed only `if path`, that is when the walk appended a vertex.
RECURSIVE DebugReconstruct(_, _, _, _)
DebugReconstruct(prev, source, cur, path) ==
    IF cur = source
    THEN IF path = <<>> THEN <<>> ELSE Reverse(Append(path, source))
    ELSE LET nxt == DictGet(prev, cur)
         IN  IF nxt = None THEN <<>>
             ELSE DebugReconstruct(prev, source, nxt, Append(path, cur))

DebugDijkstra(graph, source, target) ==
    LET st == DebugLoop(graph,
                        [dist |-> (source :> 0), prev |-> EmptyDict,
                         heap |-> {<<0, source>>}, visited_set |-> {}])
    IN  [path |-> IF target \in DOMAIN st.dist
                  THEN DebugReconstruct(st.prev, source, target, <<>>)
                  ELSE <<>>,
         distances |-> st.dist]

(***************************************************************************)
(* build_graph_for_city (graph_manager.py).                                *)
(***************************************************************************)
\* A weight that tests the adjusted weight for truth, so that an adjusted
\* weight of 0 falls back to the base weight.
EffectiveWeightByTruth(edge) ==
    IF edge.is_active = FALSE THEN None
    ELSE IF edge.adjusted_weight # None /\ edge.adjusted_weight # 0
    THEN edge.adjusted_weight
    ELSE edge.weight

_compute_effective_weight(edge) ==
    IF edge.is_active = FALSE THEN None
    ELSE IF edge.adjusted_weight # None THEN edge.adjusted_weight
    ELSE edge.weight

\* Lines 139-143: the rows in query order, each appended under its from_node.
RECURSIVE BuildAdjacency(_, _, _, _)
BuildAdjacency(adjacency, rows, id, node_ids) ==
    IF id > Len(rows) THEN adjacency
    ELSE LET edge == rows[id]
             weight == _compute_effective_weight(edge)
         IN  IF edge.from_node \in node_ids /\ edge.to_node \in node_ids
                /\ weight # None
             THEN BuildAdjacency(
                      [adjacency EXCEPT ![edge.from_node] =
                           Append(@, <<edge.to_node, weight, id>>)],
                      rows, id + 1, node_ids)
             ELSE BuildAdjacency(adjacency, rows, id + 1, node_ids)

\* A build that loads the vertices and the edges of every city.
BuildGraphOfAllCities(rows, city_id) ==
    BuildAdjacency([n \in AllNodes |-> <<>>], rows, 1, AllNodes)

build_graph_for_city(rows, city_id) ==
    BuildAdjacency([n \in NodesOfCity(city_id) |-> <<>>], rows, 1,
                   NodesOfCity(city_id))

(***************************************************************************)
(* apply_dynamic_traffic (traffic_manager.py).  The graph is mutated in    *)
(* place in the source; here the overlaid adjacency is the value.          *)
(***************************************************************************)
PeakHours == {7, 8, 9, 16, 17, 18}
HourOf(t) == t % 24

\* Lines 37-45: the roadblock rows of the city that are active at time t.
ActiveRoadblocks(rbs, rows, city_id, t) ==
    {i \in 1..Len(rbs) :
        /\ rbs[i].edge_id \in 1..Len(rows)
        /\ NodeCity(rows[rbs[i].edge_id].from_node) = city_id
        /\ rbs[i].start_time <= t
        /\ (rbs[i].end_time = None \/ rbs[i].end_time >= t)}

\* Lines 47-51: the (from_node, to_node) pairs of the blocked edges.
BlockedEdges(rbs, rows, city_id, t) ==
    {<<rows[rbs[i].edge_id].from_node, rows[rbs[i].edge_id].to_node>> :
        i \in ActiveRoadblocks(rbs, rows, city_id, t)}

\* Lines 54-60: drop the blocked entries of every adjacency list.
RemoveBlocked(graph, blocked) ==
    [from_node \in DOMAIN graph |->
        SelectSeq(graph[from_node],
                  LAMBDA entry : <<from_node, entry[1]>> \notin blocked)]

\* An overlay that applies the traffic updates at every hour.
TrafficUpdatesAnyHour(tus, rows, city_id, t) ==
    SelectSeq(tus, LAMBDA tu :
        /\ tu.edge_id \in 1..Len(rows)
        /\ NodeCity(rows[tu.edge_id].from_node) = city_id)

\* Lines 67-78: the traffic update rows read, none outside the peak hours.
TrafficUpdatesRead(tus, rows, city_id, t) ==
    IF HourOf(t) \in PeakHours
    THEN SelectSeq(tus, LAMBDA tu :
             /\ tu.edge_id \in 1..Len(rows)
             /\ NodeCity(rows[tu.edge_id].from_node) = city_id)
    ELSE <<>>

\* Lines 81-85: the lookup (from_node, to_node) -> new_weight; a later row
\* overwrites an earlier one for the same pair.
RECURSIVE TrafficWeights(_, _, _)
TrafficWeights(traffic_weights, tus, rows) ==
    IF tus = <<>> THEN traffic_weights
    ELSE LET edge == rows[Head(tus).edge_id]
         IN  TrafficWeights(
                 DictPut(traffic_weights, <<edge.from_node, edge.to_node>>,
                         Head(tus).new_weight),
                 Tail(tus), rows)

\* Lines 88-97: rewrite the weight of the entries that have a traffic update.
RECURSIVE RewriteEntries(_, _, _)
RewriteEntries(from_node, entries, traffic_weights) ==
    IF entries = <<>> THEN <<>>
    ELSE LET to_node == Head(entries)[1]
             weight == Head(entries)[2]
             edge_id == Head(entries)[3]
         IN  <<IF <<from_node, to_node>> \in DOMAIN traffic_weights
               THEN <<to_node, traffic_weights[<<from_node, to_node>>], edge_id>>
               ELSE <<to_node, weight, edge_id>>>>
             \o RewriteEntries(from_node, Tail(entries), traffic_weights)

RewriteWeights(graph, traffic_weights) ==
    [from_node \in DOMAIN graph |->
        RewriteEntries(from_node, graph[from_node], traffic_weights)]

\* An overlay whose congestion pass rewrites the adjacency lists of the built
\* graph whenever a traffic update is read, losing the removals.
ApplyTrafficRewritesBuiltGraph(graph, rbs, tus, rows, city_id, t) ==
    LET traffic_weights ==
            TrafficWeights(EmptyDict, TrafficUpdatesRead(tus, rows, city_id, t),
                           rows)
    IN  IF traffic_weights = EmptyDict
        THEN RemoveBlocked(graph, BlockedEdges(rbs, rows, city_id, t))
        ELSE RewriteWeights(graph, traffic_weights)

apply_dynamic_traffic(graph, rbs, tus, rows, city_id, t) ==
    RewriteWeights(
        RemoveBlocked(graph, BlockedEdges(rbs, rows, city_id, t)),
        TrafficWeights(EmptyDict, TrafficUpdatesRead(tus, rows, city_id, t), rows))

(***************************************************************************)
(* The path engine on the views of a city: every edge table of at most     *)
(* MaxEdges active rows between distinct vertices of the city, rows in     *)
(* increasing (from, to) order, is a start state.                          *)
(***************************************************************************)
PlainRows ==
    {r \in [from_node : CityNodes, to_node : CityNodes, weight : Weights,
            adjusted_weight : {None}, is_active : {TRUE}] :
        r.from_node # r.to_node}

RowBefore(r1, r2) ==
    r1.from_node < r2.from_node
    \/ (r1.from_node = r2.from_node /\ r1.to_node < r2.to_node)

PathEdgeTables ==
    {t \in UNION {[1..k -> PlainRows] : k \in 0..MaxEdges} :
        \A i \in 1..(Len(t) - 1) : RowBefore(t[i], t[i + 1])}

\* The orders in which a set of one or two hospital ids can be iterated.
HospitalOrders ==
    {<<h>> : h \in AllNodes}
    \cup {<<p[1], p[2]>> : p \in {q \in AllNodes \X AllNodes : q[1] # q[2]}}

NoCall == [op |-> "none"]

\* The store without vehicles, requests and assignments, and the process
\* without websockets and simulations (ConnectionManager.__init__).
NoFleet ==
    /\ ambulances = <<>> /\ requests = <<>> /\ assignments = <<>>
    /\ dispatchCall = NoCall
NoSimulation ==
    /\ active_connections = EmptyDict /\ active_simulations = {}
    /\ sockets = <<>> /\ tasks = <<>>

InitPath ==
    /\ edges \in PathEdgeTables
    /\ roadblocks = <<>> /\ trafficUpdates = <<>>
    /\ now = FirstHour
    /\ view = build_graph_for_city(edges, City)
    /\ viewTime = None
    /\ query \in [source : AllNodes, order : HospitalOrders]
    /\ hospitals = query.order
    /\ pathCall = NoCall
    /\ NoFleet /\ NoSimulation

\* shortest_path_and_distance(view, source, first hospital of the query).
CallShortestPath ==
    /\ pathCall' = [op |-> "shortest_path",
                    result |-> shortest_path_and_distance(
                                   view, query.source, query.order[1])]
    /\ UNCHANGED <<storeVars, now, view, viewTime, query>>
    /\ UNCHANGED <<fleetVars, dispatchCall, simVars>>

\* find_nearest_hospital(view, source, hospitals of the query).
CallNearestHospital ==
    /\ pathCall' = [op |-> "nearest",
                    result |-> find_nearest_hospital(
                                   view, query.source, query.order)]
    /\ UNCHANGED <<storeVars, now, view, viewTime, query>>
    /\ UNCHANGED <<fleetVars, dispatchCall, simVars>>

\* The run of run_dijkstra_debug_for_request on the view, from the source to
\* the first hospital of the query.
CallDebugDijkstra ==
    /\ pathCall' = [op |-> "debug",
                    result |-> DebugDijkstra(view, query.source, query.order[1])]
    /\ UNCHANGED <<storeVars, now, view, viewTime, query>>
    /\ UNCHANGED <<fleetVars, dispatchCall, simVars>>

NextPath ==
    \/ CallShortestPath
    \/ CallNearestHospital
    \/ CallDebugDijkstra

SpecPath == InitPath /\ [][NextPath]_vars

(***************************************************************************)
(* Reference semantics for the claims: the costs of the simple paths of a  *)
(* view, by exhaustive enumeration.  With non-negative weights the least   *)
(* cost over all paths is the least cost over the simple ones.             *)
(***************************************************************************)
RECURSIVE SimplePathCosts(_, _, _, _)
SimplePathCosts(graph, u, t, seen) ==
    IF u = t THEN {0}
    ELSE UNION {{graph[u][i][2] + c :
                    c \in SimplePathCosts(graph, graph[u][i][1], t,
                                          seen \cup {graph[u][i][1]})} :
                i \in {j \in 1..Len(graph[u]) : graph[u][j][1] \notin seen}}

SetMin(S) == CHOOSE x \in S : \A y \in S : x <= y

\* The least path cost from s to t in the view, None when there is no path or
\* an endpoint is not in the view.
BruteDistance(graph, s, t) ==
    IF s \notin DOMAIN graph \/ t \notin DOMAIN graph THEN None
    ELSE LET costs == SimplePathCosts(graph, s, t, {s})
         IN  IF costs = {} THEN None ELSE SetMin(costs)

IsAdjacent(graph, u, v) ==
    u \in DOMAIN graph /\ \E i \in 1..Len(graph[u]) : graph[u][i][1] = v

HasEdgeRow(from, to, w) ==
    \E id \in 1..Len(edges) :
        /\ edges[id].from_node = from /\ edges[id].to_node = to
        /\ edges[id].weight = w

\* The spec's scenario city: A -> B 5, B -> C 5, A -> C 20 (A, B, C = 1, 2, 3).
ScenarioCity ==
    /\ Len(edges) = 3
    /\ HasEdgeRow(1, 2, 5) /\ HasEdgeRow(2, 3, 5) /\ HasEdgeRow(1, 3, 20)

(***************************************************************************)
(* C1: the distance shortest_path_and_distance returns for a reachable     *)
(* target, and every entry of find_nearest_hospital's distance map, is the *)
(* least sum of weights over all paths of the view from the source.        *)
(***************************************************************************)
C1_DistanceIsMinimum ==
    /\ pathCall.op = "shortest_path" =>
           LET best == BruteDistance(view, query.source, query.order[1])
           IN  best # None => pathCall.result.dist = best
    /\ pathCall.op = "nearest" =>
           \A v \in DOMAIN pathCall.result.distances :
               pathCall.result.distances[v] = BruteDistance(view, query.source, v)

\* The scenario: shortestPath(A, C) returns distance 10, path [A, B, C].
C1_Witness ==
    /\ ScenarioCity
    /\ pathCall.op = "shortest_path"
    /\ query.source = 1 /\ query.order[1] = 3
    /\ pathCall.result = [dist |-> 10, path |-> <<1, 2, 3>>]

(***************************************************************************)
(* C6: find_nearest_hospital picks a hospital whose distance is the least  *)
(* of the distances shortest_path_and_distance returns for the hospitals,  *)
(* with that distance, and picks none exactly when every such call is      *)
(* unreachable.                                                            *)
(***************************************************************************)
SpDistance(t) == shortest_path_and_distance(view, query.source, t).dist

C6_NearestAgreesWithShortestPaths ==
    pathCall.op = "nearest" =>
        LET targets == {query.order[i] : i \in 1..Len(query.order)}
            reached == {t \in targets : SpDistance(t) # None}
            r == pathCall.result
        IN  /\ (r.best_hospital_id = None) <=> (reached = {})
            /\ r.best_hospital_id # None =>
                   /\ r.best_hospital_id \in reached
                   /\ r.best_distance = SpDistance(r.best_hospital_id)
                   /\ \A t \in reached : r.best_distance <= SpDistance(t)

\* Two reachable hospitals at different distances, the nearer one iterated last.
C6_Witness ==
    /\ pathCall.op = "nearest"
    /\ Len(query.order) = 2
    /\ SpDistance(query.order[1]) # None /\ SpDistance(query.order[2]) # None
    /\ SpDistance(query.order[2]) < SpDistance(query.order[1])
    /\ pathCall.result.best_hospital_id = query.order[2]

(***************************************************************************)
(* C7: a returned path starts at the source, ends at the target, and each  *)
(* consecutive pair is an adjacency entry of the view; for source = target *)
(* it is the single vertex with distance 0.                                *)
(***************************************************************************)
C7_PathIsAWalkOfTheView ==
    (pathCall.op = "shortest_path" /\ pathCall.result.dist # None) =>
        LET path == pathCall.result.path
        IN  /\ Len(path) >= 1
            /\ path[1] = query.source
            /\ path[Len(path)] = query.order[1]
            /\ \A i \in 1..(Len(path) - 1) : IsAdjacent(view, path[i], path[i + 1])
            /\ query.source = query.order[1] =>
                   (path = <<query.source>> /\ pathCall.result.dist = 0)

\* A returned path over two edges.
C7_Witness ==
    /\ pathCall.op = "shortest_path"
    /\ Len(pathCall.result.path) = 3
    /\ pathCall.result.dist > 0

(***************************************************************************)
(* C8: the unreachable result is returned only when the view holds no path *)
(* (or an endpoint is not in the view): once the loop gave the target a    *)
(* distance, the predecessor chain leads back to the source.               *)
(***************************************************************************)
C8_UnreachableOnlyWithoutPath ==
    (/\ pathCall.op = "shortest_path"
     /\ has_node(view, query.source) /\ has_node(view, query.order[1])) =>
        LET st == SpRun(view, query.source, query.order[1])
        IN  /\ query.order[1] \in DOMAIN st.dist =>
                   SpReconstruct(st.prev, query.source, query.order[1], <<>>) # <<>>
            /\ pathCall.result = Unreachable =>
                   BruteDistance(view, query.source, query.order[1]) = None

\* Both results occur: an unreachable target although the source has outgoing
\* edges, in a view where another vertex is reached over an edge.
C8_Witness ==
    /\ pathCall.op = "shortest_path"
    /\ has_node(view, query.source) /\ has_node(view, query.order[1])
    /\ view[query.source] # <<>>
    /\ pathCall.result = Unreachable
    /\ \E t \in DOMAIN view :
           Len(shortest_path_and_distance(view, query.source, t).path) = 2

(***************************************************************************)
(* C28: for a source and a target of the view, the path of the debug run   *)
(* is empty exactly when shortest_path_and_distance returns unreachable,   *)
(* and otherwise both paths lead from the source to the target with the    *)
(* same total weight, also when source = target.                           *)
(***************************************************************************)
\* The least weight of an adjacency entry from u to v.
StepWeight(graph, u, v) ==
    SetMin({graph[u][i][2] : i \in {j \in 1..Len(graph[u]) : graph[u][j][1] = v}})

RECURSIVE PathWeight(_, _)
PathWeight(graph, path) ==
    IF Len(path) <= 1 THEN 0
    ELSE StepWeight(graph, path[1], path[2]) + PathWeight(graph, Tail(path))

C28_DebugRunAgreesWithShortestPath ==
    (/\ pathCall.op = "debug"
     /\ has_node(view, query.source) /\ has_node(view, query.order[1])) =>
        LET sp == shortest_path_and_distance(view, query.source, query.order[1])
            path == pathCall.result.path
        IN  /\ (path = <<>>) <=> (sp = Unreachable)
            /\ path # <<>> =>
                   /\ path[1] = query.source
                   /\ path[Len(path)] = query.order[1]
                   /\ \A i \in 1..(Len(path) - 1) :
                          IsAdjacent(view, path[i], path[i + 1])
                   /\ PathWeight(view, path) = sp.dist
                   /\ PathWeight(view, sp.path) = sp.dist

(***************************************************************************)
(* Routing under traffic.  The store holds the scenario city (A -> B 5,    *)
(* B -> C 5, A -> C 20), alone or with one more A/B row (a second A -> B   *)
(* road or the reverse road B -> A), and at most MaxTrafficRows roadblock  *)
(* and traffic update rows.  A roadblock starts in the first hour and is  *)
(* open-ended or ends with the second hour.                                *)
(***************************************************************************)
EdgeRow(from, to, w) ==
    [from_node |-> from, to_node |-> to, weight |-> w,
     adjusted_weight |-> None, is_active |-> TRUE]

ScenarioRows == <<EdgeRow(1, 2, 5), EdgeRow(2, 3, 5), EdgeRow(1, 3, 20)>>

TrafficEdgeTables ==
    {ScenarioRows,
     ScenarioRows \o <<EdgeRow(1, 2, 20)>>,
     ScenarioRows \o <<EdgeRow(2, 1, 5)>>}

\* create_roadblock stamps start_time with the clock (routers/traffic.py:105)
\* and takes end_time from the payload: the rows were created in the first
\* hour, open-ended or ending with the next hour.
RoadblockWindows ==
    {[start_time |-> FirstHour, end_time |-> None],
     [start_time |-> FirstHour, end_time |-> FirstHour + 1]}

NewWeights == {1, 30}

\* Tables of rows for distinct edges (the create endpoints keep one row per edge).
DistinctEdgeIds(t) ==
    \A i \in 1..Len(t), j \in 1..Len(t) : i # j => t[i].edge_id # t[j].edge_id

RoadblockTables(n) ==
    {t \in UNION {[1..k -> [edge_id : 1..n, start_time : {w.start_time : w \in RoadblockWindows},
                            end_time : {w.end_time : w \in RoadblockWindows}]] :
                  k \in 0..MaxTrafficRows} :
        /\ DistinctEdgeIds(t)
        /\ \A i \in 1..Len(t) :
               [start_time |-> t[i].start_time, end_time |-> t[i].end_time]
                   \in RoadblockWindows
        /\ \A i \in 1..(Len(t) - 1) : t[i].edge_id < t[i + 1].edge_id}

TrafficUpdateTables(n) ==
    {t \in UNION {[1..k -> [edge_id : 1..n, new_weight : NewWeights]] :
                  k \in 0..MaxTrafficRows} :
        DistinctEdgeIds(t)}

InitTraffic ==
    /\ edges \in TrafficEdgeTables
    /\ roadblocks \in RoadblockTables(Len(edges))
    /\ trafficUpdates \in TrafficUpdateTables(Len(edges))
    /\ Len(roadblocks) + Len(trafficUpdates) <= MaxTrafficRows
    /\ now = FirstHour
    /\ view = build_graph_for_city(edges, City)
    /\ viewTime = None
    /\ query = [source |-> 1, order |-> <<3>>]
    /\ hospitals = query.order
    /\ pathCall = NoCall
    /\ NoFleet /\ NoSimulation

\* An hour passes.
Tick ==
    /\ now < FirstHour + MaxTicks
    /\ now' = now + 1
    /\ UNCHANGED <<storeVars, pathVars, fleetVars, dispatchCall, simVars>>

\* websocket.py lines 43-46: build the view of the city, overlay the traffic
\* at the current time and route from the query's source to its target.
RouteWithTraffic ==
    LET graph == apply_dynamic_traffic(build_graph_for_city(edges, City),
                                       roadblocks, trafficUpdates, edges, City, now)
    IN  /\ view' = graph
        /\ viewTime' = now
        /\ pathCall' = [op |-> "shortest_path",
                        result |-> shortest_path_and_distance(
                                       graph, query.source, query.order[1])]
        /\ UNCHANGED <<storeVars, now, query, fleetVars, dispatchCall, simVars>>

NextTraffic ==
    \/ Tick
    \/ RouteWithTraffic

SpecTraffic == InitTraffic /\ [][NextTraffic]_vars

(***************************************************************************)
(* Reading a view against the store.                                       *)
(***************************************************************************)
HasEntry(graph, from, edge_id) ==
    from \in DOMAIN graph /\ \E i \in 1..Len(graph[from]) : graph[from][i][3] = edge_id

EntryOf(graph, from, edge_id) ==
    graph[from][CHOOSE i \in 1..Len(graph[from]) : graph[from][i][3] = edge_id]

RoadblockActiveAt(rb, t) ==
    rb.start_time <= t /\ (rb.end_time = None \/ t <= rb.end_time)

BuiltView == build_graph_for_city(edges, City)

(***************************************************************************)
(* C2: after the overlay at time now, an edge of the built view that has   *)
(* a closure record is missing from its from-vertex's adjacency exactly    *)
(* when that record is active at now (start <= now, and end unset or       *)
(* now <= end); in the scenario city with an open-ended closure on A -> B  *)
(* the route from A to C is [A, C] at distance 20.                         *)
(***************************************************************************)
C2_ClosedExactlyWhileActive ==
    viewTime # None =>
        /\ \A i \in 1..Len(roadblocks) :
               LET edge_id == roadblocks[i].edge_id
                   from == edges[edge_id].from_node
               IN  HasEntry(BuiltView, from, edge_id) =>
                       (~HasEntry(view, from, edge_id)
                            <=> RoadblockActiveAt(roadblocks[i], viewTime))
        /\ (/\ edges = ScenarioRows
            /\ roadblocks = <<[edge_id |-> 1, start_time |-> FirstHour,
                               end_time |-> None]>>
            /\ trafficUpdates = <<>>) =>
               pathCall.result = [dist |-> 20, path |-> <<1, 3>>]

(***************************************************************************)
(* C10: the overlay changes the weight of an entry only in a peak hour,    *)
(* and then to the replacement weight of a congestion update for the       *)
(* entry's (from, to) pair; at any other hour every surviving entry keeps  *)
(* its built weight; the neighbor and the edge id of an entry never change.*)
(***************************************************************************)
UpdateWeightsFor(from, to) ==
    {trafficUpdates[k].new_weight : k \in
        {j \in 1..Len(trafficUpdates) :
            /\ edges[trafficUpdates[j].edge_id].from_node = from
            /\ edges[trafficUpdates[j].edge_id].to_node = to}}

C10_CongestionOnlyInPeakHours ==
    viewTime # None =>
        \A from \in DOMAIN view : \A i \in 1..Len(view[from]) :
            LET entry == view[from][i]
                updates == UpdateWeightsFor(from, entry[1])
            IN  /\ HasEntry(BuiltView, from, entry[3])
                /\ EntryOf(BuiltView, from, entry[3])[1] = entry[1]
                /\ IF HourOf(viewTime) \in PeakHours /\ updates # {}
                   THEN entry[2] \in updates
                   ELSE entry[2] = EntryOf(BuiltView, from, entry[3])[2]

\* A peak-hour view in which an entry carries a replacement weight that is not
\* its built weight, for a store that was also routed on outside the peak.
C10_Witness ==
    /\ viewTime # None
    /\ HourOf(viewTime) \in PeakHours
    /\ \E from \in DOMAIN view : \E i \in 1..Len(view[from]) :
           view[from][i][2] # EntryOf(BuiltView, from, view[from][i][3])[2]

(***************************************************************************)
(* C11: after the overlay at time viewTime no adjacency list holds an      *)
(* entry whose (from, neighbor) pair is the pair of an edge under a        *)
(* closure active at viewTime, also when a congestion update exists for    *)
(* that edge and the hour is a peak hour.                                  *)
(***************************************************************************)
ActivelyClosedPairs ==
    {<<edges[roadblocks[i].edge_id].from_node,
       edges[roadblocks[i].edge_id].to_node>> :
        i \in {j \in 1..Len(roadblocks) :
                  RoadblockActiveAt(roadblocks[j], viewTime)}}

C11_CongestionNeverReaddsClosedEntry ==
    viewTime # None =>
        \A from \in DOMAIN view : \A i \in 1..Len(view[from]) :
            <<from, view[from][i][1]>> \notin ActivelyClosedPairs

\* A peak-hour overlay of a store with an active closure and a congestion
\* update on the same edge, whose entry the built view holds.
C11_Witness ==
    /\ viewTime # None
    /\ HourOf(viewTime) \in PeakHours
    /\ \E i \in 1..Len(roadblocks) : \E k \in 1..Len(trafficUpdates) :
           /\ roadblocks[i].edge_id = trafficUpdates[k].edge_id
           /\ RoadblockActiveAt(roadblocks[i], viewTime)
           /\ HasEntry(BuiltView, edges[roadblocks[i].edge_id].from_node,
                       roadblocks[i].edge_id)

(***************************************************************************)
(* C27: after the overlay outside the peak hours, the entries whose edge   *)
(* id has no closure active at viewTime are those of the built view, with  *)
(* the same neighbor, weight and edge id and in the same order: the        *)
(* reverse edge of a closed edge and any other edge on the same (from, to) *)
(* pair are kept.                                                          *)
(***************************************************************************)
ActivelyClosedIds ==
    {roadblocks[i].edge_id :
        i \in {j \in 1..Len(roadblocks) :
                  RoadblockActiveAt(roadblocks[j], viewTime)}}

OpenEntries(entries) ==
    SelectSeq(entries, LAMBDA entry : entry[3] \notin ActivelyClosedIds)

C27_ClosureRemovesOnlyItsEdge ==
    (viewTime # None /\ HourOf(viewTime) \notin PeakHours) =>
        \A from \in DOMAIN BuiltView :
            /\ from \in DOMAIN view
            /\ OpenEntries(view[from]) = OpenEntries(BuiltView[from])

(***************************************************************************)
(* select_best_ambulance_for_request (ambulance_assignment.py).  The graph *)
(* is the one build_graph_for_city returns; the function never reads the   *)
(* roadblocks or the traffic updates.                                      *)
(***************************************************************************)
_compute_shortest_path_time(graph, source_node_id, target_node_id) ==
    LET selection_result ==
            find_nearest_hospital(graph, source_node_id, <<target_node_id>>)
    IN  IF selection_result.best_hospital_id = None THEN None
        ELSE selection_result.best_distance

\* Lines 134-140: the ids of the ambulances with status "available" whose
\* current_node joins a node of the city, in the order the query returns them
\* (the order of the table).
RECURSIVE AvailableAmbulances(_, _, _)
AvailableAmbulances(ambs, id, city_id) ==
    IF id > Len(ambs) THEN <<>>
    ELSE LET rest == AvailableAmbulances(ambs, id + 1, city_id)
         IN  IF /\ ambs[id].status = "available"
                /\ ambs[id].current_node # None
                /\ NodeCity(ambs[id].current_node) = city_id
             THEN <<id>> \o rest
             ELSE rest

\* Lines 145-159: one candidate per ambulance that has a path to the hospital.
RECURSIVE Candidates(_, _, _, _)
Candidates(graph, ambs, ids, hospital) ==
    IF ids = <<>> THEN <<>>
    ELSE LET amb == Head(ids)
             eta == IF ambs[amb].current_node = None THEN None
                    ELSE _compute_shortest_path_time(
                             graph, ambs[amb].current_node, hospital)
             rest == Candidates(graph, ambs, Tail(ids), hospital)
         IN  IF eta = None THEN rest
             ELSE <<[ambulance |-> amb, eta_to_hospital |-> eta]>> \o rest

RECURSIVE PyMinLastWins(_, _)
PyMinLastWins(candidates, best) ==
    IF candidates = <<>> THEN best
    ELSE PyMinLastWins(Tail(candidates),
                       IF Head(candidates).eta_to_hospital <= best.eta_to_hospital
                       THEN Head(candidates) ELSE best)

\* Python's min(candidates, key=...) (line 165): the first of the least.
RECURSIVE PyMin(_, _)
PyMin(candidates, best) ==
    IF candidates = <<>> THEN best
    ELSE PyMin(Tail(candidates),
               IF Head(candidates).eta_to_hospital < best.eta_to_hospital
               THEN Head(candidates) ELSE best)

NoPlan == [best_ambulance |-> None, best_eta |-> None, candidates |-> <<>>]

select_best_ambulance_for_request(reqs, ambs, rows, request_id) ==
    IF request_id \notin 1..Len(reqs) THEN NoPlan
    ELSE IF reqs[request_id].destination_node = None THEN NoPlan
    ELSE LET hospital == reqs[request_id].destination_node
             city_id == NodeCity(hospital)
             graph == build_graph_for_city(rows, city_id)
             candidates == Candidates(graph, ambs,
                                      AvailableAmbulances(ambs, 1, city_id),
                                      hospital)
         IN  IF candidates = <<>> THEN NoPlan
             ELSE LET best == PyMin(Tail(candidates), Head(candidates))
                  IN  [best_ambulance |-> best.ambulance,
                       best_eta |-> best.eta_to_hospital,
                       candidates |-> candidates]

(***************************************************************************)
(* create_assignment_for_request.  routers/routing.py imports it from      *)
(* ambulance_assignment.py (line 16) and calls it (line 132), but the      *)
(* repository does not define it; it is modelled from spec section 4.4:    *)
(* decline when the request has a non-terminal assignment, else select the *)
(* best ambulance and, as one unit, add the assignment with status         *)
(* "assigned" and mark the ambulance unavailable ("busy", models.py:50).   *)
(***************************************************************************)
ActiveStatuses == {"assigned", "in-transit"}

ActiveAssignments(asgs, request_id) ==
    {a \in 1..Len(asgs) : /\ asgs[a].emergency_request_id = request_id
                          /\ asgs[a].status \in ActiveStatuses}

CreateAssignmentWithoutCheck(reqs, ambs, asgs, rows, request_id) ==
    LET plan == select_best_ambulance_for_request(reqs, ambs, rows, request_id)
    IN  IF plan.best_ambulance = None
        THEN [result |-> "none", ambulances |-> ambs, assignments |-> asgs]
        ELSE [result |-> "created",
              ambulances |-> [ambs EXCEPT ![plan.best_ambulance].status = "busy"],
              assignments |-> Append(asgs,
                  [ambulance_id |-> plan.best_ambulance,
                   emergency_request_id |-> request_id,
                   eta |-> plan.best_eta, status |-> "assigned"])]

create_assignment_for_request(reqs, ambs, asgs, rows, request_id) ==
    IF ActiveAssignments(asgs, request_id) # {}
    THEN [result |-> "declined", ambulances |-> ambs, assignments |-> asgs]
    ELSE LET plan == select_best_ambulance_for_request(reqs, ambs, rows, request_id)
         IN  IF plan.best_ambulance = None
             THEN [result |-> "none", ambulances |-> ambs, assignments |-> asgs]
             ELSE [result |-> "created",
                   ambulances |-> [ambs EXCEPT ![plan.best_ambulance].status = "busy"],
                   assignments |-> Append(asgs,
                       [ambulance_id |-> plan.best_ambulance,
                        emergency_request_id |-> request_id,
                        eta |-> plan.best_eta, status |-> "assigned"])]

(***************************************************************************)
(* complete_emergency_request (routers/ambulance.py).  `assignment` is the *)
(* row .first() returns among the ambulance's active assignments (the      *)
(* query has no ORDER BY), None when there is none.  EmergencyRequest maps *)
(* no completed_at column (models.py:59-65): line 58 sets an attribute of  *)
(* the Python object that the commit does not store.                       *)
(***************************************************************************)
\* A lookup that takes any assignment of the ambulance, whatever its status.
AmbulanceAssignmentsAnyStatus(asgs, ambulance_id) ==
    {a \in 1..Len(asgs) : asgs[a].ambulance_id = ambulance_id}

AmbulanceActiveAssignments(asgs, ambulance_id) ==
    {a \in 1..Len(asgs) : /\ asgs[a].ambulance_id = ambulance_id
                          /\ asgs[a].status \in ActiveStatuses}

\* The attributes that are mapped columns (models.py) among those the
\* completion and the simulator's finalization write: the EmergencyRequest
\* class (lines 59-65) declares no completed_at, so the assignment to
\* completed_at sets a plain attribute of the Python object that no commit
\* stores.
MappedColumns == {"request.status", "assignment.status", "ambulance.status"}

\* The attribute writes of the completion before its one db.commit()
\* (ambulance.py lines 58, 59, 61, 65).
CompletionWrites ==
    {"request.completed_at", "request.status", "assignment.status",
     "ambulance.status"}

complete_emergency_request(reqs, ambs, asgs, ambulance_id, assignment) ==
    LET unchanged == [status_code |-> 404, requests |-> reqs,
                      ambulances |-> ambs, assignments |-> asgs, wrote |-> {}]
    IN  IF assignment = None THEN unchanged
        ELSE LET request_id == asgs[assignment].emergency_request_id
             IN  IF request_id \notin 1..Len(reqs) THEN unchanged
                 ELSE [status_code |-> 200,
                       wrote |-> CompletionWrites \cap MappedColumns,
                       requests |-> [reqs EXCEPT ![request_id].status = "completed"],
                       assignments |-> [asgs EXCEPT ![assignment].status = "completed"],
                       ambulances |-> IF ambulance_id \in 1..Len(ambs)
                                      THEN [ambs EXCEPT ![ambulance_id].status = "available"]
                                      ELSE ambs]

(***************************************************************************)
(* Specification SpecDispatch: ambulance selection, assignment creation    *)
(* and manual completion on a store with up to MaxAmbulances ambulances    *)
(* and up to MaxAssignments assignment rows.                               *)
(***************************************************************************)
MaxAmbulances == 2
MaxAssignments == 2

\* The scenario city; the same with a direct road as fast as the detour (equal
\* ETAs from A and B); and a city where only B is reached from A.
DispatchEdgeTables ==
    {ScenarioRows,
     <<EdgeRow(1, 2, 5), EdgeRow(2, 3, 5), EdgeRow(1, 3, 5)>>,
     <<EdgeRow(1, 2, 5)>>}

AmbulanceRows ==
    [status : {"available", "busy"}, current_node : {1, 2, OtherNode, None}]

AmbulanceTables == UNION {[1..k -> AmbulanceRows] : k \in 1..MaxAmbulances}

RequestRow(destination) ==
    [source_node |-> 1, destination_node |-> destination, status |-> "pending"]

RequestTables ==
    {<<RequestRow(3)>>, <<RequestRow(3), RequestRow(3)>>,
     <<RequestRow(None), RequestRow(3)>>, <<RequestRow(OtherNode)>>}

InitDispatch ==
    /\ edges \in DispatchEdgeTables
    /\ roadblocks = <<>> /\ trafficUpdates = <<>>
    /\ now = FirstHour
    /\ view = build_graph_for_city(edges, City)
    /\ viewTime = None
    /\ query = [source |-> 1, order |-> <<3>>]
    /\ hospitals = <<3, OtherNode>>
    /\ pathCall = NoCall
    /\ ambulances \in AmbulanceTables
    /\ requests \in RequestTables
    /\ assignments = <<>>
    /\ dispatchCall = NoCall
    /\ NoSimulation

\* select_best_ambulance_for_request(db, request_id), also for an unknown id.
SelectBestAmbulance(request_id) ==
    /\ dispatchCall' = [op |-> "select", request_id |-> request_id,
                        plan |-> select_best_ambulance_for_request(
                                     requests, ambulances, edges, request_id)]
    /\ UNCHANGED <<storeVars, now, pathVars, fleetVars, simVars>>

\* create_assignment_for_request(db, request_id); the call record keeps the
\* tables as they were before the call.
CreateAssignment(request_id) ==
    LET r == create_assignment_for_request(
                 requests, ambulances, assignments, edges, request_id)
    IN  /\ Len(assignments) < MaxAssignments
        /\ ambulances' = r.ambulances
        /\ assignments' = r.assignments
        /\ dispatchCall' = [op |-> "create", request_id |-> request_id,
                            result |-> r.result,
                            before |-> [ambulances |-> ambulances,
                                        assignments |-> assignments]]
        /\ UNCHANGED <<storeVars, now, pathVars, requests, simVars>>

\* POST /{ambulance_id}/complete.
CompleteEmergencyRequest(ambulance_id) ==
    \E assignment \in IF AmbulanceActiveAssignments(assignments, ambulance_id) = {}
                      THEN {None}
                      ELSE AmbulanceActiveAssignments(assignments, ambulance_id) :
        LET r == complete_emergency_request(
                     requests, ambulances, assignments, ambulance_id, assignment)
        IN  /\ requests' = r.requests
            /\ ambulances' = r.ambulances
            /\ assignments' = r.assignments
            /\ dispatchCall' = [op |-> "complete", ambulance_id |-> ambulance_id,
                                assignment |-> assignment,
                                status_code |-> r.status_code,
                                wrote |-> r.wrote]
            /\ UNCHANGED <<storeVars, now, pathVars, simVars>>

NextDispatch ==
    \/ \E request_id \in 1..(Len(requests) + 1) : SelectBestAmbulance(request_id)
    \/ \E request_id \in 1..Len(requests) : CreateAssignment(request_id)
    \/ \E ambulance_id \in 1..Len(ambulances) : CompleteEmergencyRequest(ambulance_id)

SpecDispatch == InitDispatch /\ [][NextDispatch]_vars

(***************************************************************************)
(* Claims on SpecDispatch.                                                 *)
(***************************************************************************)
\* The least travel time from ambulance i to the hospital over the paths of the
\* hospital's city, None without a path.
EtaOf(i, hospital) ==
    BruteDistance(build_graph_for_city(edges, NodeCity(hospital)),
                  ambulances[i].current_node, hospital)

\* The ambulances the selection may return for the hospital.
Eligible(hospital) ==
    {i \in 1..Len(ambulances) :
        /\ ambulances[i].status = "available"
        /\ ambulances[i].current_node # None
        /\ NodeCity(ambulances[i].current_node) = NodeCity(hospital)
        /\ EtaOf(i, hospital) # None}

SelectedFor(request_id) ==
    /\ dispatchCall.op = "select"
    /\ dispatchCall.request_id = request_id
    /\ request_id \in 1..Len(requests)
    /\ requests[request_id].destination_node # None

\* C5: select_best_ambulance_for_request lists as candidates exactly the
\* ambulances that are available, stand on a vertex of the destination's city
\* and have a path to the destination, each with its least travel time as ETA;
\* the best is a candidate of least ETA, the first of them in query order; with
\* no candidate there is no best.
C5_BestAmbulanceHasMinimumEta ==
    \A request_id \in 1..Len(requests) :
        SelectedFor(request_id) =>
            LET hospital == requests[request_id].destination_node
                plan == dispatchCall.plan
                listed == {plan.candidates[k].ambulance :
                               k \in 1..Len(plan.candidates)}
            IN  /\ listed = Eligible(hospital)
                /\ Len(plan.candidates) = Cardinality(listed)
                /\ \A k \in 1..Len(plan.candidates) :
                       plan.candidates[k].eta_to_hospital =
                           EtaOf(plan.candidates[k].ambulance, hospital)
                /\ (plan.best_ambulance = None) = (Eligible(hospital) = {})
                /\ plan.best_ambulance = None => plan.best_eta = None
                /\ plan.best_ambulance # None =>
                       /\ plan.best_ambulance \in Eligible(hospital)
                       /\ plan.best_eta = EtaOf(plan.best_ambulance, hospital)
                       /\ \A i \in Eligible(hospital) :
                              /\ plan.best_eta <= EtaOf(i, hospital)
                              /\ i < plan.best_ambulance =>
                                     plan.best_eta < EtaOf(i, hospital)

\* A tie: two ambulances on different vertices are candidates with equal ETAs
\* and the first one is the best.
C5_Witness ==
    /\ SelectedFor(1)
    /\ Len(dispatchCall.plan.candidates) = 2
    /\ dispatchCall.plan.candidates[1].eta_to_hospital =
           dispatchCall.plan.candidates[2].eta_to_hospital
    /\ ambulances[1].current_node # ambulances[2].current_node
    /\ dispatchCall.plan.best_ambulance = 1

RowsFor(asgs, request_id) ==
    {a \in 1..Len(asgs) : asgs[a].emergency_request_id = request_id}

\* C9: a call of create_assignment_for_request for a request that has a
\* non-completed assignment is declined and leaves the assignments and the
\* ambulances as they were, so two calls in a row leave one row; a call that
\* creates adds exactly one row for the request; and no request ever has more
\* than one non-completed assignment.
C9_AssignmentCreationIsIdempotent ==
    /\ \A request_id \in 1..Len(requests) :
           Cardinality(ActiveAssignments(assignments, request_id)) <= 1
    /\ dispatchCall.op = "create" =>
           LET request_id == dispatchCall.request_id
               before == dispatchCall.before
           IN  /\ ActiveAssignments(before.assignments, request_id) # {} =>
                      /\ dispatchCall.result = "declined"
                      /\ assignments = before.assignments
                      /\ ambulances = before.ambulances
               /\ dispatchCall.result = "created" =>
                      /\ Cardinality(RowsFor(assignments, request_id)) =
                             Cardinality(RowsFor(before.assignments, request_id)) + 1
                      /\ Cardinality(ActiveAssignments(assignments, request_id)) = 1
               /\ dispatchCall.result # "created" =>
                      /\ assignments = before.assignments
                      /\ ambulances = before.ambulances

\* The second of two calls in a row: declined, with the one row of the first
\* call and another ambulance still available.
C9_Witness ==
    /\ dispatchCall.op = "create"
    /\ dispatchCall.result = "declined"
    /\ Cardinality(RowsFor(assignments, dispatchCall.request_id)) = 1
    /\ \E i \in 1..Len(ambulances) :
           /\ ambulances[i].status = "available"
           /\ i \in Eligible(requests[dispatchCall.request_id].destination_node)

\* C29: the completion for a vehicle that has no assignment in status
\* assigned or in-transit (none at all, or only completed ones) answers 404
\* and changes no request, assignment or vehicle record; so does a second
\* completion right after a successful one.
C29_CompletionWithoutActiveAssignmentIsNotFound ==
    [][\A ambulance_id \in 1..Len(ambulances) :
          (/\ \A a \in 1..Len(assignments) :
                  assignments[a].ambulance_id = ambulance_id =>
                      assignments[a].status \notin {"assigned", "in-transit"}
           /\ CompleteEmergencyRequest(ambulance_id))
          => (/\ dispatchCall'.status_code = 404
              /\ UNCHANGED fleetVars)]_vars

\* The completion was called for a vehicle whose only assignment is completed
\* (a second call after a successful one) and answered 404.
C29_Witness ==
    /\ dispatchCall.op = "complete"
    /\ dispatchCall.status_code = 404
    /\ \E a \in 1..Len(assignments) :
           /\ assignments[a].ambulance_id = dispatchCall.ambulance_id
           /\ assignments[a].status = "completed"

\* C17: a completion that found an active assignment of the vehicle has
\* committed, in its one commit, the completion timestamp and the status
\* completed of the assignment's request, the status completed of the
\* assignment and the status available of the vehicle.
C17_CompletionCommitsRequestAssignmentVehicle ==
    (dispatchCall.op = "complete" /\ dispatchCall.status_code = 200) =>
        LET assignment == dispatchCall.assignment
            request_id == assignments[assignment].emergency_request_id
        IN  /\ dispatchCall.wrote = CompletionWrites
            /\ requests[request_id].status = "completed"
            /\ assignments[assignment].status = "completed"
            /\ ambulances[dispatchCall.ambulance_id].status = "available"

(***************************************************************************)
(* ConnectionManager (socket_manager.py).  The methods are plain `def`s or *)
(* run between two awaits, so each is one step of the event loop.          *)
(***************************************************************************)
\* connect, after the awaited websocket.accept() (lines 14-16).
Register(connections, websocket, request_id) ==
    DictPut(connections, request_id,
            Append(IF request_id \in DOMAIN connections
                   THEN connections[request_id] ELSE <<>>, websocket))

\* disconnect (lines 18-23).
disconnect(connections, websocket, request_id) ==
    IF request_id \notin DOMAIN connections THEN connections
    ELSE LET left == SelectSeq(connections[request_id],
                               LAMBDA w : w # websocket)
         IN  IF left = <<>>
             THEN [r \in DOMAIN connections \ {request_id} |-> connections[r]]
             ELSE DictPut(connections, request_id, left)

StartSimulationWithoutMark(running, request_id) ==
    [started |-> TRUE, running |-> running]

\* start_simulation (lines 34-39): check and add in one synchronous call.
start_simulation(running, request_id) ==
    IF request_id \in running
    THEN [started |-> FALSE, running |-> running]
    ELSE [started |-> TRUE, running |-> running \cup {request_id}]

\* end_simulation (lines 41-43).
end_simulation(running, request_id) == running \ {request_id}

(***************************************************************************)
(* websocket_endpoint (routers/websocket.py), lines 17-70: what the        *)
(* endpoint does between the accept and its first receive_text, given the  *)
(* active assignment .first() returned (None when there is none).  The     *)
(* result is the route of the task to create, <<>> for no task.            *)
(***************************************************************************)
RouteToSimulate(reqs, ambs, asgs, rows, rbs, tus, t, request_id, assignment) ==
    IF request_id \notin 1..Len(reqs) \/ assignment = None THEN <<>>
    ELSE IF reqs[request_id].status = "completed" THEN <<>>
    ELSE LET ambulance_id == asgs[assignment].ambulance_id
             hospital == reqs[request_id].destination_node
         IN  IF \/ ambulance_id \notin 1..Len(ambs)
                \/ ambs[ambulance_id].current_node = None
                \/ hospital = None
             THEN <<>>
             ELSE LET city_id == NodeCity(hospital)
                      graph == apply_dynamic_traffic(
                                   build_graph_for_city(rows, city_id),
                                   rbs, tus, rows, city_id, t)
                  IN  shortest_path_and_distance(
                          graph, ambs[ambulance_id].current_node, hospital).path

(***************************************************************************)
(* simulate_ambulance_movement (simulation.py): the terminal commit.       *)
(***************************************************************************)
\* The attribute writes of the finalization, in order (lines 107, 108, 111, 114).
FinalWrites ==
    <<"request.completed_at", "request.status", "assignment.status",
      "ambulance.status">>

CommittedWritesEachWrite(executed, failed) == SubSeq(FinalWrites, 1, executed)

\* The writes the session commits when `executed` of them ran and then a
\* statement failed or not: there is one db.commit(), after the last write
\* (line 116); a failure before it returns leaves the writes pending, and
\* db.close() (line 132) discards them.
CommittedWrites(executed, failed) == IF failed THEN <<>> ELSE FinalWrites

\* The columns a commit of these writes changes in the store.
Flushed(writes) == {writes[n] : n \in 1..Len(writes)} \cap MappedColumns

(***************************************************************************)
(* Specification SpecSim: subscribers attach to the tracking websocket of  *)
(* a request while assignments are created and completed and the started   *)
(* simulations run.  Every step is what the event loop runs between two    *)
(* awaits (or one synchronous HTTP handler).                               *)
(***************************************************************************)
MaxSubscribers == 2

Subscribers == 1..MaxSubscribers

SimAmbulanceTables ==
    {<<[status |-> "available", current_node |-> 2],
       [status |-> "available", current_node |-> 1]>>}

SimRequestTables == {<<RequestRow(3)>>, <<RequestRow(3), RequestRow(None)>>}

SimRoadblockTables ==
    {<<>>, <<[edge_id |-> 1, start_time |-> FirstHour, end_time |-> None]>>}

\* A subscriber without a connection (not yet opened, or closed again).
NoSocket == [pc |-> "idle", request_id |-> None]

InitSim ==
    /\ edges = ScenarioRows
    /\ roadblocks \in SimRoadblockTables
    /\ trafficUpdates = <<>>
    /\ now = FirstHour
    /\ view = build_graph_for_city(edges, City)
    /\ viewTime = None
    /\ query = [source |-> 1, order |-> <<3>>]
    /\ hospitals = query.order
    /\ pathCall = NoCall
    /\ ambulances \in SimAmbulanceTables
    /\ requests \in SimRequestTables
    /\ assignments = <<>>
    /\ dispatchCall = NoCall
    /\ active_connections = EmptyDict
    /\ active_simulations = {}
    /\ sockets = [s \in Subscribers |-> NoSocket]
    /\ tasks = <<>>

\* A client opens /ws/tracking/{request_id}: the endpoint starts and suspends
\* in manager.connect at `await websocket.accept()`.
Connect(s, request_id) ==
    /\ sockets[s].pc = "idle"
    /\ sockets' = [sockets EXCEPT ![s] = [pc |-> "accepting",
                                          request_id |-> request_id]]
    /\ UNCHANGED <<storeVars, now, pathVars, fleetVars, dispatchCall>>
    /\ UNCHANGED <<active_connections, active_simulations, tasks>>

\* The accept raises (the client is gone): connect is called outside the try,
\* the endpoint ends without having registered the websocket.
AcceptFails(s) ==
    /\ sockets[s].pc = "accepting"
    /\ sockets' = [sockets EXCEPT ![s] = NoSocket]
    /\ UNCHANGED <<storeVars, now, pathVars, fleetVars, dispatchCall>>
    /\ UNCHANGED <<active_connections, active_simulations, tasks>>

NewTask(request_id, route) ==
    [request_id |-> request_id, route |-> route, pc |-> "start", i |-> 0,
     assignment |-> None, loaded_status |-> "none", ambulance_id |-> None,
     wrote |-> {}]

\* The accept returned: connect registers the websocket, then lines 17-70 run
\* up to the first `await websocket.receive_text()` without suspending.
Attach(s) ==
    LET request_id == sockets[s].request_id
        guard == start_simulation(active_simulations, request_id)
    IN  /\ sockets[s].pc = "accepting"
        /\ active_connections' = Register(active_connections, s, request_id)
        /\ sockets' = [sockets EXCEPT ![s].pc = "listening"]
        /\ IF guard.started
           THEN \E assignment \in
                     IF ActiveAssignments(assignments, request_id) = {}
                     THEN {None}
                     ELSE ActiveAssignments(assignments, request_id) :
                    LET route == RouteToSimulate(
                                     requests, ambulances, assignments, edges,
                                     roadblocks, trafficUpdates, now,
                                     request_id, assignment)
                    IN  IF route # <<>>
                        THEN /\ tasks' = Append(tasks, NewTask(request_id, route))
                             /\ active_simulations' = guard.running
                        ELSE /\ tasks' = tasks
                             /\ active_simulations' =
                                    end_simulation(guard.running, request_id)
           ELSE /\ tasks' = tasks
                /\ active_simulations' = guard.running
        /\ UNCHANGED <<storeVars, now, pathVars, fleetVars, dispatchCall>>

\* What a disconnect means to the tasks suspended in a send of a broadcast
\* for the request (socket_manager.py:27-29): the for loop iterates the list
\* object active_connections[request_id] itself, so a removal is seen by the
\* iterator; when the list becomes empty the key is deleted (line 23) and the
\* iterator keeps the orphaned empty list, whatever is registered later.  The
\* field stayed records the websockets attached since the broadcast began.
Detached(ts, websocket, request_id, connections) ==
    [k \in DOMAIN ts |->
        IF ts[k].pc = "sending" /\ ts[k].request_id = request_id
        THEN [ts[k] EXCEPT !.stayed = @ \ {websocket},
                           !.orphan = @ \/ request_id \notin DOMAIN connections]
        ELSE ts[k]]

\* receive_text raises WebSocketDisconnect (lines 80-81).
Disconnect(s) ==
    /\ sockets[s].pc = "listening"
    /\ active_connections' =
           disconnect(active_connections, s, sockets[s].request_id)
    /\ sockets' = [sockets EXCEPT ![s] = NoSocket]
    /\ tasks' = Detached(tasks, s, sockets[s].request_id, active_connections')
    /\ UNCHANGED <<storeVars, now, pathVars, fleetVars, dispatchCall>>
    /\ UNCHANGED active_simulations

\* A statement of lines 19-70 raises (the database is unreachable): the
\* handler of line 82 disconnects; the running set keeps the request.
AttachFails(s) ==
    LET request_id == sockets[s].request_id
        guard == start_simulation(active_simulations, request_id)
    IN  /\ sockets[s].pc = "accepting"
        /\ guard.started
        /\ active_simulations' = guard.running
        /\ active_connections' =
               disconnect(Register(active_connections, s, request_id),
                          s, request_id)
        /\ sockets' = [sockets EXCEPT ![s] = NoSocket]
        /\ UNCHANGED <<storeVars, now, pathVars, fleetVars, dispatchCall, tasks>>

\* create_emergency_request_auto_endpoint, step 3 (routers/routing.py:132):
\* the assignment of a request is created while websockets and simulations
\* run.  The endpoint is the only caller and calls once, for the request it
\* has just created: the request is pending and has no assignment row.
AutoEndpointAssigns(request_id) ==
    LET r == create_assignment_for_request(
                 requests, ambulances, assignments, edges, request_id)
    IN  /\ Len(assignments) < MaxAssignments
        /\ requests[request_id].status = "pending"
        /\ \A a \in 1..Len(assignments) :
               assignments[a].emergency_request_id # request_id
        /\ ambulances' = r.ambulances
        /\ assignments' = r.assignments
        /\ UNCHANGED <<storeVars, now, pathVars, requests, dispatchCall, simVars>>

\* POST /{ambulance_id}/complete while websockets and simulations run.
CompleteEndpoint(ambulance_id) ==
    \E assignment \in IF AmbulanceActiveAssignments(assignments, ambulance_id) = {}
                      THEN {None}
                      ELSE AmbulanceActiveAssignments(assignments, ambulance_id) :
        LET r == complete_emergency_request(
                     requests, ambulances, assignments, ambulance_id, assignment)
        IN  /\ requests' = r.requests
            /\ ambulances' = r.ambulances
            /\ assignments' = r.assignments
            /\ UNCHANGED <<storeVars, now, pathVars, dispatchCall, simVars>>

\* Lines 28-40: the task looks up the request's active assignment and its
\* ambulance.  The task runs on the event loop's thread and the completion
\* endpoint, a plain def, on a thread of the pool, each with its own session:
\* the endpoint's commit can fall between these reads and the commit of
\* line 44.
SimQuery(k) ==
    /\ tasks[k].pc = "start"
    /\ \E assignment \in
            IF ActiveAssignments(assignments, tasks[k].request_id) = {}
            THEN {None}
            ELSE ActiveAssignments(assignments, tasks[k].request_id) :
           IF assignment = None
              \/ (assignment # None /\
                  assignments[assignment].ambulance_id \notin 1..Len(ambulances))
           THEN tasks' = [tasks EXCEPT ![k].pc = "done"]
           ELSE tasks' = [tasks EXCEPT
                              ![k].pc = "found",
                              ![k].assignment = assignment,
                              ![k].loaded_status = assignments[assignment].status,
                              ![k].ambulance_id =
                                  assignments[assignment].ambulance_id]
    /\ UNCHANGED <<storeVars, now, pathVars, fleetVars, dispatchCall>>
    /\ UNCHANGED <<active_connections, active_simulations, sockets>>

\* Lines 43-44: the session flushes UPDATE assignments SET status =
\* 'in-transit' WHERE id = ... when the attribute changed from the loaded
\* value, whatever the row holds by then.
InTransitWrite(asgs, assignment, loaded_status) ==
    IF loaded_status = "in-transit" THEN asgs
    ELSE [asgs EXCEPT ![assignment].status = "in-transit"]

\* Lines 43-44: the task commits the assignment as in-transit.
SimStart(k) ==
    /\ tasks[k].pc = "found"
    /\ assignments' = InTransitWrite(assignments, tasks[k].assignment,
                                     tasks[k].loaded_status)
    /\ tasks' = [tasks EXCEPT ![k].pc = "moving"]
    /\ UNCHANGED <<storeVars, now, pathVars, ambulances, requests, dispatchCall>>
    /\ UNCHANGED <<active_connections, active_simulations, sockets>>

\* Lines 56-92, one turn of the loop: the ambulance is committed at the next
\* vertex of the route (lines 58-59), then the task broadcasts and sleeps there
\* (the ticks at one vertex change no state of the model).
SimMove(k) ==
    /\ tasks[k].pc = "moving"
    /\ tasks[k].i < Len(tasks[k].route)
    /\ ambulances' = [ambulances EXCEPT ![tasks[k].ambulance_id].current_node =
                                            tasks[k].route[tasks[k].i + 1]]
    /\ tasks' = [tasks EXCEPT ![k].i = @ + 1]
    /\ UNCHANGED <<storeVars, now, pathVars, requests, assignments, dispatchCall>>
    /\ UNCHANGED <<active_connections, active_simulations, sockets>>

\* An exception before or in the loop (lines 28-92): caught at line 129, the
\* session is closed.
SimFail(k) ==
    /\ tasks[k].pc \in {"start", "found", "moving"}
    /\ tasks' = [tasks EXCEPT ![k].pc = "failed"]
    /\ UNCHANGED <<storeVars, now, pathVars, fleetVars, dispatchCall>>
    /\ UNCHANGED <<active_connections, active_simulations, sockets>>

\* The rows the re-fetch of lines 97-100 can return: it filters by request and
\* ambulance, not by status, and takes .first().
RefetchedAssignments(asgs, request_id, ambulance_id) ==
    {a \in 1..Len(asgs) : /\ asgs[a].emergency_request_id = request_id
                          /\ asgs[a].ambulance_id = ambulance_id}

\* Lines 96-116: the finalization.  `executed` writes run; then either a
\* statement fails (possibly the commit itself) or the commit succeeds.
SimFinalize(k) ==
    /\ tasks[k].pc = "moving"
    /\ tasks[k].i = Len(tasks[k].route)
    /\ \E assignment \in RefetchedAssignments(
                             assignments, tasks[k].request_id, tasks[k].ambulance_id),
          executed \in 0..Len(FinalWrites), failed \in BOOLEAN :
           LET landed == Flushed(CommittedWrites(executed, failed))
           IN  /\ ~failed => executed = Len(FinalWrites)
               /\ requests' =
                      IF "request.status" \in landed
                      THEN [requests EXCEPT ![tasks[k].request_id].status = "completed"]
                      ELSE requests
               /\ assignments' =
                      IF "assignment.status" \in landed
                      THEN [assignments EXCEPT ![assignment].status = "completed"]
                      ELSE assignments
               /\ ambulances' =
                      IF "ambulance.status" \in landed
                      THEN [ambulances EXCEPT ![tasks[k].ambulance_id].status = "available"]
                      ELSE ambulances
               /\ tasks' = [tasks EXCEPT
                                ![k].wrote = landed,
                                ![k].pc = IF failed THEN "failed"
                                          ELSE "completed_event"]
    /\ UNCHANGED <<storeVars, now, pathVars, dispatchCall>>
    /\ UNCHANGED <<active_connections, active_simulations, sockets>>

\* A simulator that marks its simulation as ended when it returns.
SimCompletedEventEndsSimulation(k) ==
    /\ tasks[k].pc = "completed_event"
    /\ tasks' = [tasks EXCEPT ![k].pc = "done"]
    /\ active_simulations' =
           end_simulation(active_simulations, tasks[k].request_id)
    /\ UNCHANGED <<storeVars, now, pathVars, fleetVars, dispatchCall>>
    /\ UNCHANGED <<active_connections, sockets>>

\* Lines 118-132: the completed event is broadcast and the session closed.
SimCompletedEvent(k) ==
    /\ tasks[k].pc = "completed_event"
    /\ tasks' = [tasks EXCEPT ![k].pc = "done"]
    /\ UNCHANGED <<storeVars, now, pathVars, fleetVars, dispatchCall>>
    /\ UNCHANGED <<active_connections, active_simulations, sockets>>

NextSim ==
    \/ \E s \in Subscribers, request_id \in 1..Len(requests) : Connect(s, request_id)
    \/ \E s \in Subscribers : AcceptFails(s)
    \/ \E s \in Subscribers : Attach(s)
    \/ \E s \in Subscribers : AttachFails(s)
    \/ \E s \in Subscribers : Disconnect(s)
    \/ \E request_id \in 1..Len(requests) : AutoEndpointAssigns(request_id)
    \/ \E ambulance_id \in 1..Len(ambulances) : CompleteEndpoint(ambulance_id)
    \/ \E k \in 1..Len(tasks) : SimQuery(k)
    \/ \E k \in 1..Len(tasks) : SimStart(k)
    \/ \E k \in 1..Len(tasks) : SimMove(k)
    \/ \E k \in 1..Len(tasks) : SimFail(k)
    \/ \E k \in 1..Len(tasks) : SimFinalize(k)
    \/ \E k \in 1..Len(tasks) : SimCompletedEvent(k)

SpecSim == InitSim /\ [][NextSim]_vars

(***************************************************************************)
(* Claims on SpecSim.                                                      *)
(***************************************************************************)
TasksOf(request_id) == {k \in 1..Len(tasks) : tasks[k].request_id = request_id}

\* C3: in every interleaving of the attach attempts of the subscribers, at most
\* one simulate_ambulance_movement task is ever created for a request.
C3_AtMostOneSimulationPerRequest ==
    \A request_id \in 1..Len(requests) : Cardinality(TasksOf(request_id)) <= 1

\* Two subscribers of the same request were both accepted and ran the start
\* guard while the request had an active assignment; one task exists.
C3_Witness ==
    \E s1 \in Subscribers, s2 \in Subscribers :
        /\ s1 # s2
        /\ sockets[s1].pc = "listening" /\ sockets[s2].pc = "listening"
        /\ sockets[s1].request_id = sockets[s2].request_id
        /\ Cardinality(TasksOf(sockets[s1].request_id)) = 1
        /\ ActiveAssignments(assignments, sockets[s1].request_id) # {}

\* C4: in every committed state, each simulation has written all of the
\* finalization (the request's completed_at and status, the assignment's
\* status, the ambulance's status) to the store or none of it.
C4_FinalizationIsAllOrNothing ==
    \A k \in 1..Len(tasks) :
        \/ tasks[k].wrote = {}
        \/ tasks[k].wrote = {FinalWrites[n] : n \in 1..Len(FinalWrites)}

\* The three status columns alone are committed together or not at all.
SimStatusesAllOrNothing ==
    \A k \in 1..Len(tasks) :
        tasks[k].wrote = {} \/ tasks[k].wrote = MappedColumns

\* The place of a status in the lifecycle assigned -> in-transit -> completed.
Rank(status) ==
    IF status = "assigned" THEN 1 ELSE IF status = "in-transit" THEN 2 ELSE 3

\* C19: no step of any interleaving of the simulations and the completion
\* endpoint moves the committed status of an assignment backwards along
\* assigned -> in-transit -> completed; a completed assignment stays completed.
C19_AssignmentStatusOnlyMovesForward ==
    [][\A a \in 1..Len(assignments) :
          Rank(assignments'[a].status) >= Rank(assignments[a].status)]_vars

\* C24: a request is taken out of active_simulations only by a step that
\* created no task for it; once a task exists for a request, the request
\* stays in active_simulations, also after the task finished or failed, and
\* no step creates another task for it.
C24_StartedSimulationStaysMarked ==
    [][\A request_id \in 1..Len(requests) :
          /\ (request_id \in active_simulations
               /\ request_id \notin active_simulations')
              => (tasks' = tasks /\ TasksOf(request_id) = {})
          /\ TasksOf(request_id) # {}
              => /\ request_id \in active_simulations
                 /\ request_id \in active_simulations'
                 /\ Len(tasks') = Len(tasks)]_vars

\* The task of a request has finished or failed, the request is still in
\* active_simulations, and a subscriber attached to the request is listening
\* while another one is about to attach.
C24_Witness ==
    \E k \in 1..Len(tasks) : \E s1 \in Subscribers, s2 \in Subscribers :
        /\ tasks[k].pc \in {"done", "failed"}
        /\ tasks[k].request_id \in active_simulations
        /\ sockets[s1] = [pc |-> "listening", request_id |-> tasks[k].request_id]
        /\ sockets[s2] = [pc |-> "accepting", request_id |-> tasks[k].request_id]

\* A step in which the simulation of a request commits its finalization
\* (completed_at and the statuses, lines 107-116) and goes on to broadcast the
\* completed event.
SimCompletes(request_id) ==
    \E k \in 1..Len(tasks) :
        /\ tasks[k].request_id = request_id
        /\ tasks[k].pc = "moving" /\ tasks'[k].pc = "completed_event"

\* A step in which the completion endpoint completes an assignment of a
\* request (and sets the request's completed_at and status).
EndpointCompletes(request_id) ==
    /\ tasks' = tasks
    /\ \E a \in 1..Len(assignments) :
           /\ assignments[a].emergency_request_id = request_id
           /\ assignments[a].status \in ActiveStatuses
           /\ assignments'[a].status = "completed"

\* The request's completion was committed by its simulation.
CompletedBySimulator(request_id) ==
    \E k \in 1..Len(tasks) :
        tasks[k].request_id = request_id /\ "request.status" \in tasks[k].wrote

\* C26: a request is completed at most once: once its status is committed as
\* completed by the completion endpoint, no later step of the simulator runs
\* the completion of that request again (writes its completion timestamp,
\* emits a completed event for it), and once it is committed by the
\* simulator, no later step of the endpoint does.
C26_RequestIsCompletedAtMostOnce ==
    [][\A request_id \in 1..Len(requests) :
          requests[request_id].status = "completed" =>
              IF CompletedBySimulator(request_id)
              THEN ~EndpointCompletes(request_id)
              ELSE ~SimCompletes(request_id)]_vars

\* The place of a request's status in the lifecycle
\* pending -> in-progress -> completed (models.py:64).
RequestRank(status) ==
    IF status = "pending" THEN 1 ELSE IF status = "in-progress" THEN 2 ELSE 3

\* C20: a request's status follows pending -> in-progress -> completed: a row
\* that appears is pending, a step changes the status of a row by at most one
\* place forward (so a request is in-progress before it is completed), and a
\* completed request stays completed.
C20_RequestStatusFollowsLifecycle ==
    [][/\ Len(requests') >= Len(requests)
       /\ \A r \in 1..Len(requests') :
              IF r \in 1..Len(requests)
              THEN /\ RequestRank(requests'[r].status)
                          >= RequestRank(requests[r].status)
                   /\ RequestRank(requests'[r].status)
                          <= RequestRank(requests[r].status) + 1
              ELSE requests'[r].status = "pending"]_vars

(***************************************************************************)
(* The request intake: find_nearest_node_for_location (nearest_node.py),   *)
(* auto_select_hospital_for_location (request_flow.py) and                 *)
(* create_emergency_request_auto (emergency_requests.py).  The nodes lie   *)
(* on a line, node n at latitude 2 * n, and the nodes table is in id order.*)
(***************************************************************************)
NodeTable == <<1, 2, 3, OtherNode>>

NodeLat(n) == 2 * n

_squared_euclidean_distance(lat1, lat2) == (lat1 - lat2) * (lat1 - lat2)

\* Lines 85-94: the linear scan; the first node of least distance wins.
RECURSIVE NearestNodeScan(_, _, _, _)
NearestNodeScan(nodes, latitude, best_node_id, best_distance_sq) ==
    IF nodes = <<>> THEN best_node_id
    ELSE LET dist_sq == _squared_euclidean_distance(latitude, NodeLat(Head(nodes)))
         IN  IF best_distance_sq = None \/ dist_sq < best_distance_sq
             THEN NearestNodeScan(Tail(nodes), latitude, Head(nodes), dist_sq)
             ELSE NearestNodeScan(Tail(nodes), latitude, best_node_id,
                                  best_distance_sq)

find_nearest_node_for_location(city_id, latitude) ==
    NearestNodeScan(SelectSeq(NodeTable, LAMBDA n : NodeCity(n) = city_id),
                    latitude, None, None)

\* Python's None as the return value of auto_select_hospital_for_location.
NoSelectionResult == [is_none |-> TRUE]

IsNone(selection_result) == "is_none" \in DOMAIN selection_result

\* The graph is the one build_graph_for_city returns (line 84); the function
\* never reads the roadblocks or the traffic updates.
auto_select_hospital_for_location(rows, hosp, city_id, latitude) ==
    LET source_node_id == find_nearest_node_for_location(city_id, latitude)
        graph == build_graph_for_city(rows, city_id)
        hospital_ids == SelectSeq(hosp, LAMBDA h : NodeCity(h) = city_id)
    IN  IF source_node_id = None THEN NoSelectionResult
        ELSE IF hospital_ids = <<>> THEN NoSelectionResult
        ELSE find_nearest_hospital(graph, source_node_id, hospital_ids)

\* emergency_requests.py lines 93-98: the nodes the ORDER BY distance query can
\* return first, every node of least distance.
NearestNodesSql(city_id, latitude) ==
    LET nodes == NodesOfCity(city_id)
        least == {n \in nodes : \A o \in nodes :
                     _squared_euclidean_distance(latitude, NodeLat(n))
                         <= _squared_euclidean_distance(latitude, NodeLat(o))}
    IN  IF nodes = {} THEN {None} ELSE least

\* The columns EmergencyRequest maps (models.py:59-65) and the keyword
\* arguments its constructor is called with (emergency_requests.py:104-110);
\* the declarative constructor raises TypeError for a keyword that is no
\* attribute of the class.
RequestColumns == {"id", "source_node", "destination_node", "status", "created_at"}

ConstructorKeywords ==
    {"source_node", "destination_node", "caller_name", "caller_phone", "status"}

NoDataMessage == "No routing data or hospitals available for this city."
UnreachableMessage == "No reachable hospital from the caller location."
NoSourceMessage == "Could not find a source node for the caller location."
NoMessage == "None"

Failure(reqs, error_message) ==
    [created |-> FALSE, raised |-> FALSE, error_message |-> error_message,
     requests |-> reqs]

\* create_emergency_request_auto answering the unreachable case with the
\* message of the case without hospitals.
CreateRequestOneMessage(reqs, rows, hosp, city_id, latitude, source_node) ==
    LET selection_result ==
            auto_select_hospital_for_location(rows, hosp, city_id, latitude)
    IN  IF IsNone(selection_result) THEN Failure(reqs, NoDataMessage)
        ELSE IF selection_result.best_hospital_id = None
        THEN Failure(reqs, NoDataMessage)
        ELSE IF source_node = None THEN Failure(reqs, NoSourceMessage)
        ELSE IF ~(ConstructorKeywords \subseteq RequestColumns)
        THEN [created |-> FALSE, raised |-> TRUE, error_message |-> NoMessage,
              requests |-> reqs]
        ELSE [created |-> TRUE, raised |-> FALSE, error_message |-> NoMessage,
              requests |-> Append(reqs,
                  [source_node |-> source_node,
                   destination_node |-> selection_result.best_hospital_id,
                   status |-> "pending"])]

create_emergency_request_auto(reqs, rows, hosp, city_id, latitude, source_node) ==
    LET selection_result ==
            auto_select_hospital_for_location(rows, hosp, city_id, latitude)
    IN  IF IsNone(selection_result) THEN Failure(reqs, NoDataMessage)
        ELSE IF selection_result.best_hospital_id = None
        THEN Failure(reqs, UnreachableMessage)
        ELSE IF source_node = None THEN Failure(reqs, NoSourceMessage)
        ELSE IF ~(ConstructorKeywords \subseteq RequestColumns)
        THEN [created |-> FALSE, raised |-> TRUE, error_message |-> NoMessage,
              requests |-> reqs]
        ELSE [created |-> TRUE, raised |-> FALSE, error_message |-> NoMessage,
              requests |-> Append(reqs,
                  [source_node |-> source_node,
                   destination_node |-> selection_result.best_hospital_id,
                   status |-> "pending"])]

(***************************************************************************)
(* The intake on small stores: the scenario city or the single road A -> B,*)
(* with or without an open-ended closure of A -> B, any one or two         *)
(* hospital nodes or none, at most one request (its destination a hospital *)
(* node), callers of three cities (the third has no nodes) at four         *)
(* latitudes.                                                              *)
(***************************************************************************)
MaxRequests == 2

IntakeEdgeTables == {ScenarioRows, <<EdgeRow(1, 2, 5)>>}

IntakeAmbulanceTables ==
    {<<>>,
     <<[status |-> "available", current_node |-> 1]>>,
     <<[status |-> "available", current_node |-> 1],
       [status |-> "available", current_node |-> 2]>>}

IntakeCities == {City, City + 1, City + 2}

CallerLatitudes == {1, 3, 6, 8}

InitIntake ==
    /\ edges \in IntakeEdgeTables
    /\ roadblocks \in SimRoadblockTables
    /\ trafficUpdates = <<>>
    /\ hospitals \in HospitalOrders \cup {<<>>}
    /\ now = FirstHour
    /\ view = build_graph_for_city(edges, City)
    /\ viewTime = None
    /\ query = [source |-> 1, order |-> <<3>>]
    /\ pathCall = NoCall
    /\ ambulances \in IntakeAmbulanceTables
    /\ requests \in {<<>>, <<RequestRow(2)>>, <<RequestRow(3)>>}
    /\ \A i \in 1..Len(requests) : \E j \in 1..Len(hospitals) :
           requests[i].destination_node = hospitals[j]
    /\ assignments = <<>>
    /\ dispatchCall = NoCall
    /\ NoSimulation

\* create_emergency_request_auto(db, city_id, latitude, longitude); the call
\* record keeps the selection and the requests table as it was before the call.
CreateEmergencyRequestAuto(city_id, latitude) ==
    \E source_node \in NearestNodesSql(city_id, latitude) :
        LET r == create_emergency_request_auto(
                     requests, edges, hospitals, city_id, latitude, source_node)
        IN  /\ Len(requests) < MaxRequests
            /\ requests' = r.requests
            /\ dispatchCall' =
                   [op |-> "create_request", city_id |-> city_id,
                    source |-> find_nearest_node_for_location(city_id, latitude),
                    selection_result |-> auto_select_hospital_for_location(
                                            edges, hospitals, city_id, latitude),
                    created |-> r.created, raised |-> r.raised,
                    error_message |-> r.error_message,
                    before |-> requests]
            /\ UNCHANGED <<storeVars, now, pathVars, ambulances, assignments,
                           simVars>>

NextIntake ==
    \/ \E city_id \in IntakeCities : \E latitude \in CallerLatitudes :
           CreateEmergencyRequestAuto(city_id, latitude)
    \/ \E request_id \in 1..Len(requests) : SelectBestAmbulance(request_id)

SpecIntake == InitIntake /\ [][NextIntake]_vars

(***************************************************************************)
(* Claims on SpecIntake.                                                   *)
(***************************************************************************)
\* The view of a city with the traffic overlay of the store at the clock.
OverlaidView(city_id) ==
    apply_dynamic_traffic(build_graph_for_city(edges, city_id), roadblocks,
                          trafficUpdates, edges, city_id, now)

\* C12: both decision procedures route on the overlaid view: the hospital
\* auto_select_hospital_for_location picks has a path from the caller's node
\* in the view with the active closures removed, and so has the destination
\* from the node of the ambulance select_best_ambulance_for_request picks.
C12_DecisionsRouteOnOverlaidView ==
    /\ (/\ dispatchCall.op = "create_request"
        /\ ~IsNone(dispatchCall.selection_result)
        /\ dispatchCall.selection_result.best_hospital_id # None) =>
           BruteDistance(OverlaidView(dispatchCall.city_id), dispatchCall.source,
                         dispatchCall.selection_result.best_hospital_id) # None
    /\ (/\ dispatchCall.op = "select"
        /\ dispatchCall.plan.best_ambulance # None) =>
           LET hospital == requests[dispatchCall.request_id].destination_node
           IN  BruteDistance(OverlaidView(NodeCity(hospital)),
                   ambulances[dispatchCall.plan.best_ambulance].current_node,
                   hospital) # None

\* The hospital nodes of a city, and whether one has a path from the source in
\* the view the selection routes on.
CityHospitals(city_id) == {hospitals[i] : i \in {j \in 1..Len(hospitals) :
                                NodeCity(hospitals[j]) = city_id}}

ReachableHospitals(city_id, source) ==
    {h \in CityHospitals(city_id) :
        BruteDistance(build_graph_for_city(edges, city_id), source, h) # None}

\* C13: create_emergency_request_auto for a city without hospital nodes fails
\* with one message, for a city whose hospital nodes are all out of reach of
\* the caller's node with another, and creates no request in either case.
C13_NoHospitalAndUnreachableDiffer ==
    dispatchCall.op = "create_request" =>
        /\ NoDataMessage # UnreachableMessage
        /\ CityHospitals(dispatchCall.city_id) = {} =>
               /\ dispatchCall.error_message = NoDataMessage
               /\ requests = dispatchCall.before
        /\ (/\ CityHospitals(dispatchCall.city_id) # {}
            /\ ReachableHospitals(dispatchCall.city_id, dispatchCall.source) = {}) =>
               /\ dispatchCall.error_message = UnreachableMessage
               /\ requests = dispatchCall.before
        /\ dispatchCall.error_message = UnreachableMessage =>
               CityHospitals(dispatchCall.city_id) # {}

\* A call for a caller in a city that has a hospital node, none within reach.
C13_Witness ==
    /\ dispatchCall.op = "create_request"
    /\ CityHospitals(dispatchCall.city_id) # {}
    /\ ReachableHospitals(dispatchCall.city_id, dispatchCall.source) = {}
    /\ dispatchCall.error_message = UnreachableMessage

(***************************************************************************)
(* simulate_ambulance_movement in ticks.  The total duration is given in   *)
(* half seconds (total_eta_minutes * 60 = total_eta / 2 seconds).          *)
(***************************************************************************)
Max(a, b) == IF a >= b THEN a ELSE b

\* Python's round() of the non-negative fraction num / den: to the nearest
\* integer, a tie to the even one.
PyRound(num, den) ==
    LET q == num \div den
        r == num % den
    IN  IF 2 * r < den THEN q
        ELSE IF 2 * r > den THEN q + 1
        ELSE IF q % 2 = 0 THEN q ELSE q + 1

\* Line 48.
TotalSeconds(total_eta) == Max(1, PyRound(total_eta, 2))

\* Lines 46, 51, 63-66: the ticks at the i-th of the route's vertices.
NodeDuration(i, route, total_seconds, remaining_eta_seconds) ==
    LET total_steps == Max(1, Len(route))
    IN  IF i = total_steps THEN Max(1, remaining_eta_seconds)
        ELSE Max(1, PyRound(total_seconds, total_steps))

\* The task as asyncio.create_task leaves it (websocket.py:56-62), with the
\* locals of the loop and of the broadcast it is suspended in: the websocket
\* being sent to, the number of list elements the iterator has consumed,
\* the websockets whose send_json has returned or raised, and where the task
\* goes on after the broadcast.  events is the history of the statuses of the
\* payloads handed to broadcast.
RunTask(request_id, route, total_eta) ==
    NewTask(request_id, route) @@
    [total_seconds |-> TotalSeconds(total_eta),
     remaining_eta_seconds |-> TotalSeconds(total_eta),
     second |-> 0, node_duration |-> 0, events |-> <<>>,
     connection |-> None, consumed |-> 0, orphan |-> FALSE,
     stayed |-> {}, sent |-> {}, resume |-> "none"]

\* A broadcast that ends the task when no websocket is attached.
BroadcastNeedsSubscriber(task, connections, status, resume) ==
    LET emitted == [task EXCEPT !.events = Append(@, status)]
    IN  IF task.request_id \notin DOMAIN connections
        THEN [emitted EXCEPT !.pc = "done"]
        ELSE [emitted EXCEPT
                  !.pc = "sending",
                  !.connection = connections[task.request_id][1],
                  !.consumed = 1,
                  !.orphan = FALSE,
                  !.stayed = {connections[task.request_id][n] :
                                 n \in 1..Len(connections[task.request_id])},
                  !.sent = {},
                  !.resume = resume]

\* manager.broadcast(payload, request_id) up to its first await
\* (socket_manager.py:25-29).
BeginBroadcast(task, connections, status, resume) ==
    LET emitted == [task EXCEPT !.events = Append(@, status)]
    IN  IF task.request_id \notin DOMAIN connections
        THEN [emitted EXCEPT !.pc = resume]
        ELSE [emitted EXCEPT
                  !.pc = "sending",
                  !.connection = connections[task.request_id][1],
                  !.consumed = 1,
                  !.orphan = FALSE,
                  !.stayed = {connections[task.request_id][n] :
                                 n \in 1..Len(connections[task.request_id])},
                  !.sent = {},
                  !.resume = resume]

\* The list the for loop of line 27 iterates when it asks for the next
\* element: the live list of the request, or the orphaned empty one.
IteratedList(task, connections) ==
    IF task.orphan \/ task.request_id \notin DOMAIN connections THEN <<>>
    ELSE connections[task.request_id]

(***************************************************************************)
(* Specification SpecRun: one simulation, created by the first subscriber  *)
(* of request 1, runs in ticks along its route while subscribers attach    *)
(* and detach and the assignment may be completed by hand.                 *)
(***************************************************************************)
MaxEta == 7

RunRoutes == {<<3>>, <<2, 3>>, <<1, 2, 3>>}

InitRun ==
    /\ edges = ScenarioRows
    /\ roadblocks = <<>> /\ trafficUpdates = <<>>
    /\ now = FirstHour
    /\ view = build_graph_for_city(edges, City)
    /\ viewTime = None
    /\ query = [source |-> 1, order |-> <<3>>]
    /\ hospitals = query.order
    /\ pathCall = NoCall
    /\ requests = <<RequestRow(3)>>
    /\ assignments = <<[emergency_request_id |-> 1, ambulance_id |-> 1,
                        status |-> "assigned"]>>
    /\ dispatchCall = NoCall
    /\ active_connections = DictPut(EmptyDict, 1, <<1>>)
    /\ active_simulations = {1}
    /\ sockets = [s \in Subscribers |->
                     IF s = 1 THEN [pc |-> "listening", request_id |-> 1]
                     ELSE NoSocket]
    /\ \E route \in RunRoutes, total_eta \in 1..MaxEta :
           /\ ambulances = <<[status |-> "busy", current_node |-> route[1]]>>
           /\ tasks = <<RunTask(1, route, total_eta)>>

\* Lines 56-66: the ambulance is committed at the next vertex of the route and
\* the ticks of that vertex begin.
RunMove(k) ==
    /\ tasks[k].pc = "moving"
    /\ tasks[k].i < Len(tasks[k].route)
    /\ ambulances' = [ambulances EXCEPT ![tasks[k].ambulance_id].current_node =
                                            tasks[k].route[tasks[k].i + 1]]
    /\ tasks' = [tasks EXCEPT
                     ![k].i = @ + 1,
                     ![k].second = 0,
                     ![k].node_duration =
                         NodeDuration(tasks[k].i + 1, tasks[k].route,
                                      tasks[k].total_seconds,
                                      tasks[k].remaining_eta_seconds),
                     ![k].pc = "tick"]
    /\ UNCHANGED <<storeVars, now, pathVars, requests, assignments, dispatchCall>>
    /\ UNCHANGED <<active_connections, active_simulations, sockets>>

\* An arrival flag raised at every tick of the last vertex.
IsArrivedAtLastVertex(task) == task.i = Max(1, Len(task.route))

\* Line 75: the last tick of the last vertex.
is_arrived(task) ==
    /\ task.i = Max(1, Len(task.route))
    /\ task.second = task.node_duration - 1

\* Lines 69-86: one tick builds its payload and calls broadcast.
RunTick(k) ==
    /\ tasks[k].pc = "tick"
    /\ tasks' = [tasks EXCEPT ![k] =
                     BeginBroadcast(tasks[k], active_connections,
                         IF is_arrived(tasks[k]) THEN "arrived" ELSE "in-transit",
                         "sleeping")]
    /\ UNCHANGED <<storeVars, now, pathVars, fleetVars, dispatchCall>>
    /\ UNCHANGED <<active_connections, active_simulations, sockets>>

\* socket_manager.py:27-32: the awaited send_json returns (ok) or raises and
\* the exception is swallowed; the for loop takes the next element of the
\* list, or ends and broadcast returns.
RunSend(k, ok) ==
    LET list == IteratedList(tasks[k], active_connections)
    IN  /\ tasks[k].pc = "sending"
        /\ tasks' = [tasks EXCEPT ![k] =
                         IF tasks[k].consumed < Len(list)
                         THEN [tasks[k] EXCEPT
                                   !.sent = @ \cup {tasks[k].connection},
                                   !.connection = list[tasks[k].consumed + 1],
                                   !.consumed = @ + 1]
                         ELSE [tasks[k] EXCEPT
                                   !.pc = tasks[k].resume,
                                   !.connection = None, !.consumed = 0,
                                   !.orphan = FALSE, !.stayed = {},
                                   !.sent = {}, !.resume = "none"]]
        /\ UNCHANGED <<storeVars, now, pathVars, fleetVars, dispatchCall>>
        /\ UNCHANGED <<active_connections, active_simulations, sockets>>

\* Lines 89-92: the sleep of the tick returns; the next tick of the vertex,
\* or the next turn of the outer loop.
RunSleep(k) ==
    /\ tasks[k].pc = "sleeping"
    /\ tasks' = [tasks EXCEPT
                     ![k].remaining_eta_seconds = Max(0, @ - 1),
                     ![k].second = @ + 1,
                     ![k].pc = IF tasks[k].second + 1 < tasks[k].node_duration
                               THEN "tick" ELSE "moving"]
    /\ UNCHANGED <<storeVars, now, pathVars, fleetVars, dispatchCall>>
    /\ UNCHANGED <<active_connections, active_simulations, sockets>>

\* Lines 118-127: the final payload is built and broadcast.
RunCompletedEvent(k) ==
    /\ tasks[k].pc = "completed_event"
    /\ tasks' = [tasks EXCEPT ![k] =
                     BeginBroadcast(tasks[k], active_connections, "completed",
                                    "done")]
    /\ UNCHANGED <<storeVars, now, pathVars, fleetVars, dispatchCall>>
    /\ UNCHANGED <<active_connections, active_simulations, sockets>>

NextRun ==
    \/ \E s \in Subscribers, request_id \in 1..Len(requests) : Connect(s, request_id)
    \/ \E s \in Subscribers : AcceptFails(s)
    \/ \E s \in Subscribers : Attach(s)
    \/ \E s \in Subscribers : Disconnect(s)
    \/ \E ambulance_id \in 1..Len(ambulances) : CompleteEndpoint(ambulance_id)
    \/ \E k \in 1..Len(tasks) : SimQuery(k)
    \/ \E k \in 1..Len(tasks) : SimStart(k)
    \/ \E k \in 1..Len(tasks) : RunMove(k)
    \/ \E k \in 1..Len(tasks) : RunTick(k)
    \/ \E k \in 1..Len(tasks), ok \in BOOLEAN : RunSend(k, ok)
    \/ \E k \in 1..Len(tasks) : RunSleep(k)
    \/ \E k \in 1..Len(tasks) : SimFail(k)
    \/ \E k \in 1..Len(tasks) : SimFinalize(k)
    \/ \E k \in 1..Len(tasks) : RunCompletedEvent(k)

SpecRun == InitRun /\ [][NextRun]_vars

(***************************************************************************)
(* Claims on SpecRun.                                                      *)
(***************************************************************************)
\* C14: when a broadcast ends, every websocket that was attached to the
\* request from its beginning to its end was sent the event (its send_json
\* returned or raised), whatever the other websockets did meanwhile.
BroadcastEnds(k) == tasks[k].pc = "sending" /\ tasks'[k].pc # "sending"

C14_BroadcastReachesEveryStayingSubscriber ==
    [][\A k \in 1..Len(tasks) :
          BroadcastEnds(k) =>
              tasks[k].stayed \subseteq (tasks[k].sent \cup {tasks[k].connection})
      ]_vars

(***************************************************************************)
(* Specification SpecRunLive: SpecRun without failures of the store, with  *)
(* the scheduling of the event loop: a task whose awaited sleep or send    *)
(* has completed is resumed, and every awaited send returns or raises.     *)
(***************************************************************************)
\* The finalization when no statement of it fails.
SimFinalizeCommits(k) == SimFinalize(k) /\ tasks'[k].pc = "completed_event"

TaskStep(k) ==
    \/ SimQuery(k)
    \/ SimStart(k)
    \/ RunMove(k)
    \/ RunTick(k)
    \/ \E ok \in BOOLEAN : RunSend(k, ok)
    \/ RunSleep(k)
    \/ SimFinalizeCommits(k)
    \/ RunCompletedEvent(k)

NextRunLive ==
    \/ \E s \in Subscribers, request_id \in 1..Len(requests) : Connect(s, request_id)
    \/ \E s \in Subscribers : AcceptFails(s)
    \/ \E s \in Subscribers : Attach(s)
    \/ \E s \in Subscribers : Disconnect(s)
    \/ \E ambulance_id \in 1..Len(ambulances) : CompleteEndpoint(ambulance_id)
    \/ TaskStep(1)

SpecRunLive == InitRun /\ [][NextRunLive]_vars /\ WF_vars(TaskStep(1))

\* A websocket of the request is detached in this step.
Detaches(s) == sockets[s].pc = "listening" /\ sockets'[s].pc = "idle"

\* What the simulation of task k has done and where it stands.
Progress(k) ==
    <<tasks[k].pc, tasks[k].i, tasks[k].second, tasks[k].remaining_eta_seconds,
      tasks[k].events, tasks[k].wrote>>

\* C15: a simulation that has committed its assignment as in-transit goes on
\* to the terminal commit, whichever subscribers detach meanwhile, also when
\* none stays attached; and a step that detaches a subscriber removes its
\* websocket from the list of the request and changes nothing of the store,
\* of the running set or of what the simulation has done.
C15_SimulationRunsToTheTerminalCommit ==
    /\ (tasks[1].pc = "moving") ~> (tasks[1].wrote # {})
    /\ [][\A s \in Subscribers :
            Detaches(s) =>
                /\ active_connections' =
                       disconnect(active_connections, s, sockets[s].request_id)
                /\ UNCHANGED <<storeVars, fleetVars, active_simulations>>
                /\ Progress(1)' = Progress(1)
        ]_vars

\* The terminal commit of a simulation was made while no websocket was
\* attached to its request: the subscriber that started it has detached.
C15_Witness ==
    /\ tasks[1].pc = "done"
    /\ tasks[1].wrote = MappedColumns
    /\ tasks[1].request_id \notin DOMAIN active_connections

\* The ticks of task k so far: the payloads of the loop handed to broadcast.
TickEvents(k) ==
    {n \in 1..Len(tasks[k].events) : tasks[k].events[n] # "completed"}

\* The loop of task k has run through the whole route (line 92 was the last
\* statement executed).
LoopDone(k) ==
    tasks[k].pc = "moving" /\ tasks[k].i = Len(tasks[k].route)

\* C16: when the loop has run through the route, the number of ticks emitted,
\* the sum of the dwell times of the vertices, is total_seconds
\* = max(1, round(total_eta_minutes * 60)).
C16_TicksSumToTotalSeconds ==
    \A k \in 1..Len(tasks) :
        LoopDone(k) => Cardinality(TickEvents(k)) = tasks[k].total_seconds

\* The last tick of the last vertex of task k has been handed to broadcast.
LastTickEmitted(k) ==
    /\ tasks[k].i = Len(tasks[k].route)
    /\ \/ tasks[k].second = tasks[k].node_duration
       \/ (/\ tasks[k].pc \in {"sending", "sleeping"}
           /\ tasks[k].second = tasks[k].node_duration - 1)

\* C18: the events of a simulation are in-transit events, then one arrived
\* event, which is the last tick of the last vertex, then one completed event,
\* which is the last event; the terminal commit is made after the arrived
\* event was emitted and before the completed event, and a simulation that
\* has ended after its commit has emitted the completed event.
C18_EventStatusesAreOrdered ==
    \A k \in 1..Len(tasks) :
        LET e == tasks[k].events
            n == Len(e)
            statuses == {e[j] : j \in 1..n}
        IN  /\ \A j \in 1..n :
                   /\ e[j] = "arrived" =>
                          /\ \A m \in 1..(j - 1) : e[m] = "in-transit"
                          /\ j = n \/ (j = n - 1 /\ e[n] = "completed")
                   /\ e[j] = "completed" =>
                          j = n /\ n >= 2 /\ e[n - 1] = "arrived"
            /\ "arrived" \in statuses <=> LastTickEmitted(k)
            /\ tasks[k].wrote # {} => "arrived" \in statuses
            /\ "completed" \in statuses => tasks[k].wrote # {}
            /\ (tasks[k].pc = "done" /\ tasks[k].wrote # {}) =>
                   e[n] = "completed"

\* A simulation has run to its end: in-transit events, the arrived event, the
\* commit and the completed event.
C18_Witness ==
    /\ tasks[1].pc = "done"
    /\ tasks[1].wrote = MappedColumns
    /\ Len(tasks[1].events) >= 4
    /\ tasks[1].events[1] = "in-transit"
    /\ tasks[1].events[Len(tasks[1].events)] = "completed"

(***************************************************************************)
(* The views of every city.  The store holds edge rows between two         *)
(* vertices of the city under query and the vertex of the other city, in   *)
(* either direction and across the cities, active or not, with or without  *)
(* an adjusted weight; at most one closure and one congestion record, on   *)
(* the first edge.  A third city has no vertex.                            *)
(***************************************************************************)
MaxViewRows == 2

ViewRows ==
    {r \in [from_node : {1, 2, OtherNode}, to_node : {1, 2, OtherNode},
            weight : {5}, adjusted_weight : {None, 0},
            is_active : BOOLEAN] :
        r.from_node # r.to_node}

ViewEdgeTables == UNION {[1..k -> ViewRows] : k \in 0..MaxViewRows}

ViewCities == {City, City + 1, City + 2}

\* graph_manager.py:143: the ids under which graph.edges keeps an Edge object.
BuildEdges(rows, city_id) ==
    {id \in 1..Len(rows) :
        /\ rows[id].from_node \in NodesOfCity(city_id)
        /\ rows[id].to_node \in NodesOfCity(city_id)
        /\ _compute_effective_weight(rows[id]) # None}

InitView ==
    /\ edges \in ViewEdgeTables
    /\ roadblocks \in {<<>>} \cup
           {<<[edge_id |-> 1, start_time |-> FirstHour, end_time |-> None]>> :
               k \in 1..Len(edges)}
    /\ trafficUpdates \in {<<>>} \cup
           {<<[edge_id |-> 1, new_weight |-> 30]>> : k \in 1..Len(edges)}
    /\ hospitals = <<>>
    /\ now \in {FirstHour, FirstHour + 1}
    /\ view = EmptyDict
    /\ viewTime = None
    /\ query = [source |-> 1, order |-> <<>>]
    /\ pathCall = NoCall
    /\ NoFleet /\ NoSimulation

\* build_graph_for_city(db, city_id).
BuildView(city_id) ==
    /\ view' = build_graph_for_city(edges, city_id)
    /\ viewTime' = None
    /\ pathCall' = [op |-> "build", city_id |-> city_id,
                    edges |-> BuildEdges(edges, city_id)]
    /\ UNCHANGED <<storeVars, now, query, fleetVars, dispatchCall, simVars>>

\* apply_dynamic_traffic(graph, db, city_id) on the view just built.
OverlayView ==
    /\ pathCall.op = "build"
    /\ view' = apply_dynamic_traffic(view, roadblocks, trafficUpdates, edges,
                                     pathCall.city_id, now)
    /\ viewTime' = now
    /\ pathCall' = [pathCall EXCEPT !.op = "overlay"]
    /\ UNCHANGED <<storeVars, now, query, fleetVars, dispatchCall, simVars>>

NextView ==
    \/ \E city_id \in ViewCities : BuildView(city_id)
    \/ OverlayView

SpecView == InitView /\ [][NextView]_vars

\* C22: the view build_graph_for_city returns for a city, and the same view
\* after apply_dynamic_traffic, has an adjacency entry for exactly the
\* vertices of that city, and every neighbor in it is a vertex of that city.
C22_ViewStaysWithinItsCity ==
    pathCall.op \in {"build", "overlay"} =>
        /\ DOMAIN view = NodesOfCity(pathCall.city_id)
        /\ \A from \in DOMAIN view : \A i \in 1..Len(view[from]) :
               view[from][i][1] \in NodesOfCity(pathCall.city_id)

\* The overlaid view of the city of vertices 1 and 2 holds an entry, while the
\* store has an active edge from a vertex of the city into the other city.
C22_Witness ==
    /\ pathCall.op = "overlay" /\ pathCall.city_id = City
    /\ \E from \in DOMAIN view : view[from] # <<>>
    /\ \E id \in 1..Len(edges) :
           /\ edges[id].from_node \in NodesOfCity(City)
           /\ edges[id].to_node = OtherNode
           /\ edges[id].is_active

\* The entries of a view that carry an edge id, as <<from, entry>> pairs.
EntriesOf(graph, edge_id) ==
    {p \in UNION {{<<from, i>> : i \in 1..Len(graph[from])} : from \in DOMAIN graph} :
        graph[p[1]][p[2]][3] = edge_id}

\* C23: build_graph_for_city creates one entry (to, w, id) under the
\* from-vertex for every edge of the city that is not inactive, with w the
\* adjusted weight if present and the base weight otherwise, and no entry and
\* no graph.edges entry for an edge whose active flag is false.
C23_OneEntryPerActiveEdge ==
    pathCall.op = "build" =>
        \A id \in 1..Len(edges) :
            LET edge == edges[id]
                w == IF edge.adjusted_weight # None THEN edge.adjusted_weight
                     ELSE edge.weight
            IN  (/\ edge.from_node \in NodesOfCity(pathCall.city_id)
                 /\ edge.to_node \in NodesOfCity(pathCall.city_id)) =>
                    IF edge.is_active = FALSE
                    THEN EntriesOf(view, id) = {} /\ id \notin pathCall.edges
                    ELSE /\ Cardinality(EntriesOf(view, id)) = 1
                         /\ \A p \in EntriesOf(view, id) :
                                /\ p[1] = edge.from_node
                                /\ view[p[1]][p[2]] = <<edge.to_node, w, id>>
                         /\ id \in pathCall.edges

\* A built view with an entry at adjusted weight 0, of a store that also has
\* an inactive edge between two vertices of the city.
C23_Witness ==
    /\ pathCall.op = "build" /\ pathCall.city_id = City
    /\ \E id \in 1..Len(edges) :
           /\ edges[id].adjusted_weight = 0 /\ EntriesOf(view, id) # {}
    /\ \E id \in 1..Len(edges) :
           /\ edges[id].is_active = FALSE
           /\ edges[id].from_node \in NodesOfCity(City)
           /\ edges[id].to_node \in NodesOfCity(City)

(***************************************************************************)
(* run_dijkstra_debug_for_request (debug_dijkstra.py) as a whole, behind   *)
(* GET /requests/{request_id}/debug/dijkstra.  The Edge objects of the     *)
(* session are the rows with the attributes the function sets on them; the *)
(* store is written through from their mapped columns, although neither    *)
(* the function nor the endpoint commits.  Edge.distance is not modelled.  *)
(***************************************************************************)
\* models.py:31-39: the mapped columns of Edge.
EdgeColumns == {"from_node", "to_node", "weight", "adjusted_weight", "is_active"}

MappedEdge(object) == [c \in EdgeColumns |-> object[c]]

\* An annotation that marks a blocked edge through its is_active column.
AnnotateByActiveFlag(edge, is_blocked, has_traffic) ==
    [_is_blocked |-> is_blocked, _has_traffic |-> has_traffic]
        @@ [edge EXCEPT !.is_active = ~is_blocked]

\* Lines 92-95: setattr(e, "_is_blocked", ...), setattr(e, "_has_traffic", ...).
Annotate(edge, is_blocked, has_traffic) ==
    [_is_blocked |-> is_blocked, _has_traffic |-> has_traffic] @@ edge

DebugError(rows, detail) ==
    [raised |-> TRUE, detail |-> detail, path |-> <<>>, edges |-> rows]

run_dijkstra_debug_for_request(reqs, rows, rbs, tus, request_id, t) ==
    IF request_id \notin 1..Len(reqs)
    THEN DebugError(rows, "EmergencyRequest not found")
    ELSE IF reqs[request_id].source_node = None
            \/ reqs[request_id].destination_node = None
    THEN DebugError(rows, "EmergencyRequest is missing source or destination node")
    ELSE LET source == reqs[request_id].source_node
             target == reqs[request_id].destination_node
             city_id == NodeCity(source)
             graph == apply_dynamic_traffic(build_graph_for_city(rows, city_id),
                                            rbs, tus, rows, city_id, t)
             blocked_edge_ids ==
                 {rbs[i].edge_id : i \in {j \in 1..Len(rbs) :
                     /\ rbs[j].edge_id \in 1..Len(rows)
                     /\ rbs[j].start_time <= t
                     /\ (rbs[j].end_time = None \/ rbs[j].end_time >= t)}}
             traffic_edge_ids ==
                 IF HourOf(t) \in PeakHours
                 THEN {tus[i].edge_id : i \in 1..Len(tus)}
                 ELSE {}
             objects ==
                 [id \in 1..Len(rows) |->
                     IF id \in BuildEdges(rows, city_id)
                     THEN Annotate(rows[id], id \in blocked_edge_ids,
                                   id \in traffic_edge_ids)
                     ELSE rows[id]]
         IN  [raised |-> FALSE, detail |-> "",
              path |-> DebugDijkstra(graph, source, target).path,
              edges |-> [id \in 1..Len(rows) |-> MappedEdge(objects[id])]]

DebugRequestTables ==
    {<<RequestRow(3)>>, <<RequestRow(None), RequestRow(3)>>, <<RequestRow(1)>>}

DebugTrafficUpdateTables ==
    {<<>>, <<[edge_id |-> 1, new_weight |-> 30]>>,
     <<[edge_id |-> 3, new_weight |-> 1], [edge_id |-> 2, new_weight |-> 30]>>}

InitDebug ==
    /\ edges \in TrafficEdgeTables
    /\ roadblocks \in SimRoadblockTables
    /\ trafficUpdates \in DebugTrafficUpdateTables
    /\ hospitals = <<3>>
    /\ now = FirstHour
    /\ view = build_graph_for_city(edges, City)
    /\ viewTime = None
    /\ query = [source |-> 1, order |-> <<3>>]
    /\ pathCall = NoCall
    /\ ambulances = <<[status |-> "available", current_node |-> 1]>>
    /\ requests \in DebugRequestTables
    /\ assignments = <<>>
    /\ dispatchCall = NoCall
    /\ NoSimulation

\* debug_dijkstra_for_request (routers/routing.py:183-197); a ValueError
\* becomes the 404 response.
DebugDijkstraForRequest(request_id) ==
    LET r == run_dijkstra_debug_for_request(
                 requests, edges, roadblocks, trafficUpdates, request_id, now)
    IN  /\ edges' = r.edges
        /\ dispatchCall' = [op |-> "debug", request_id |-> request_id,
                            status_code |-> IF r.raised THEN 404 ELSE 200,
                            shortest_path |-> r.path, at |-> now]
        /\ UNCHANGED <<roadblocks, trafficUpdates, hospitals, now, pathVars,
                       fleetVars, simVars>>

NextDebug ==
    \/ Tick
    \/ \E request_id \in 1..(Len(requests) + 1) : DebugDijkstraForRequest(request_id)

SpecDebug == InitDebug /\ [][NextDebug]_vars

\* C21: a call of the debug operation, successful or failing, leaves every
\* stored request, assignment, vehicle, edge, closure and congestion record
\* (and the vertices, which are fixed) with the values it had before the call.
C21_DebugRunLeavesStoreUnchanged ==
    [][(\E request_id \in 1..(Len(requests) + 1) :
            DebugDijkstraForRequest(request_id))
       => UNCHANGED <<storeVars, fleetVars>>]_vars

\* A successful debug run in a peak hour returned a path while a closure was
\* active and a congestion record existed, so both flags were set on edges.
C21_Witness ==
    /\ dispatchCall.op = "debug"
    /\ dispatchCall.status_code = 200
    /\ dispatchCall.shortest_path # <<>>
    /\ HourOf(dispatchCall.at) \in PeakHours
    /\ \E i \in 1..Len(roadblocks) :
           RoadblockActiveAt(roadblocks[i], dispatchCall.at)
    /\ trafficUpdates # <<>>

(***************************************************************************)
(* Two requests and one vehicle: the only ambulance serves one request     *)
(* and, once it is available again, the other.                             *)
(***************************************************************************)
InitShared ==
    /\ edges = ScenarioRows
    /\ roadblocks = <<>> /\ trafficUpdates = <<>>
    /\ now = FirstHour
    /\ view = build_graph_for_city(edges, City)
    /\ viewTime = None
    /\ query = [source |-> 1, order |-> <<3>>]
    /\ hospitals = query.order
    /\ pathCall = NoCall
    /\ ambulances = <<[status |-> "available", current_node |-> 1]>>
    /\ requests \in {<<RequestRow(3), RequestRow(3)>>,
                     <<RequestRow(3), RequestRow(2)>>}
    /\ assignments = <<>>
    /\ dispatchCall = NoCall
    /\ active_connections = EmptyDict
    /\ active_simulations = {}
    /\ sockets = [s \in Subscribers |-> NoSocket]
    /\ tasks = <<>>

\* The steps of NextSim without the failures (of an accept, of an attach, of
\* a simulation) and without disconnects.
NextShared ==
    \/ \E s \in Subscribers, request_id \in 1..Len(requests) : Connect(s, request_id)
    \/ \E s \in Subscribers : Attach(s)
    \/ \E request_id \in 1..Len(requests) : AutoEndpointAssigns(request_id)
    \/ \E ambulance_id \in 1..Len(ambulances) : CompleteEndpoint(ambulance_id)
    \/ \E k \in 1..Len(tasks) : SimQuery(k)
    \/ \E k \in 1..Len(tasks) : SimStart(k)
    \/ \E k \in 1..Len(tasks) : SimMove(k)
    \/ \E k \in 1..Len(tasks) : SimFinalize(k)
    \/ \E k \in 1..Len(tasks) : SimCompletedEvent(k)

SpecShared == InitShared /\ [][NextShared]_vars

\* A step in which the simulation k commits its finalization.
TerminalCommit(k) ==
    tasks[k].pc = "moving" /\ tasks'[k].pc = "completed_event"

\* C25: the terminal commit of the simulation of a request never sets to
\* available a vehicle that at that moment holds a non-completed assignment
\* for a different request.
C25_TerminalCommitSparesReassignedVehicle ==
    [][\A k \in 1..Len(tasks) :
          (TerminalCommit(k) /\ "ambulance.status" \in tasks'[k].wrote) =>
              ~\E a \in 1..Len(assignments) :
                  /\ assignments[a].ambulance_id = tasks[k].ambulance_id
                  /\ assignments[a].emergency_request_id # tasks[k].request_id
                  /\ assignments[a].status \in ActiveStatuses]_vars

\* The place of a vertex on a route (0 when it is not on it).
PositionOn(route, n) ==
    IF \E i \in 1..Len(route) : route[i] = n
    THEN CHOOSE i \in 1..Len(route) : route[i] = n
    ELSE 0

\* C30: while a simulation is moving, the stored current vertex of its vehicle
\* is a vertex of the simulated path and never moves back along the path; at
\* the terminal commit it is the last vertex of the path, which is the
\* destination vertex of the request.
C30_VehicleFollowsTheSimulatedPath ==
    [][\A k \in 1..Len(tasks) :
          (tasks[k].pc = "moving" /\ tasks'[k].pc \in {"moving", "completed_event"}) =>
              LET route == tasks[k].route
                  before == ambulances[tasks[k].ambulance_id].current_node
                  after == ambulances'[tasks[k].ambulance_id].current_node
              IN  /\ PositionOn(route, after) >= 1
                  /\ PositionOn(route, after) >= PositionOn(route, before)
                  /\ TerminalCommit(k) =>
                         /\ after = route[Len(route)]
                         /\ after = requests[tasks[k].request_id].destination_node]_vars
====
